---- MODULE Spec2Model ----
(***************************************************************************)
(* A model of the vision_core backend: the agent status scheduler          *)
(* (app/agent_scheduler.py with the agent registration API and the         *)
(* runtime builder of app/rule_engine/engine.py), the shared frame hub     *)
(* (app/shared_hub/hub.py), the signaling relay                            *)
(* (app/signaling_server/signaling_server.py), the rule functions          *)
(* (app/rule_engine) and the publishing process                            *)
(* (app/streamer/sender_stream.py).                                        *)
(*                                                                         *)
(* The subsystems share no state, so each has its own specification        *)
(* (SpecSched, SpecHub, SpecRelay, SpecRules, SpecSender) over the         *)
(* variables it owns; the other variables keep their initial values.       *)
(***************************************************************************)
EXTENDS Integers, Sequences, FiniteSets, TLC

VARIABLES
    \* ---- scheduler and agent store ----
    now,          \* the wall clock read by datetime.utcnow()
    cameras,      \* camera_ids present in the cameras collection
    agents,       \* the agents collection: agent_id -> document
    tasks,        \* the asyncio tasks created by the scheduler module, by name
    written,      \* history: the update_one writes of the latest sweep
    op,           \* history: the operation that produced this state
    \* ---- shared frame hub ----
    channels,     \* SharedFrameHub._channels: the channel names created
    last_frame,   \* CameraChannel.last_frame per channel (NoFrame: None)
    subscribers,  \* CameraChannel._subscribers per channel: a list of queues
    queue,        \* the contents of each asyncio.Queue, oldest first
    qstate,       \* each queue: "unused", "open" or "shutdown"
    published,    \* history: the number of publish calls per channel
    qchan,        \* history: the channel whose subscribe created the queue
    subAt,        \* history: published[qchan] when the queue was created
    delivered,    \* history: the frame a consumer took last from each queue
    hop,          \* history: whether a publish produced this state, and the
                  \* dead queues it removed
    \* ---- signaling relay ----
    clients,      \* the clients dict, as its entry table in insertion order:
                  \* [id, conn] per live entry, Hole where one was deleted
    cstate,       \* each connection's handler: "new" (not yet accepted),
                  \* "open" (at receive_text), "bcast" (suspended in the
                  \* broadcast loop) or "ended"
    cid,          \* the client_id path parameter of each connection
    alive,        \* whether the peer still holds the socket open
    last_offer,   \* ClientState.last_offer of each connection
    last_answer,  \* ClientState.last_answer of each connection
    iter,         \* the clients.items() iterator of a suspended broadcast
    rop,          \* history: the handler step that produced this state and
                  \* the messages it delivered, each with its recipient
    \* ---- rule engine ----
    dets,         \* the detection list that run_detection returned
    rphase,       \* "idle", "detected" (a list is at hand) or "done"
    rcall,        \* history: the rule function called on dets, its rule
                  \* arguments and what it returned or that it raised
    \* ---- publishing process ----
    sphase,       \* where the sender process is: "idle" (not started),
                  \* "connect" (run() is about to open the signaling
                  \* socket), "receive" (in `async for raw in ws`),
                  \* "heartbeat" (in the sleep(1) of the keep-alive loop),
                  \* "recover" (in its sleep(2)), "returned" (run() has
                  \* returned), "raised" (run() has raised) or "exited"
    pc_state,     \* pc.connectionState
    ws_state,     \* the signaling socket: "none", "open" or "closed"
    connection_established,  \* the local of run() with this name
    since_heartbeat,  \* current_time - last_heartbeat, in seconds
    since_alert,  \* current_time - last_fall_alert_time, in seconds
    sessions,     \* history: the number of calls of run()
    sop,          \* history: the step that produced this state and the
                  \* messages it sent on the signaling socket
    \* ---- frame processing ----
    camera_last_detection_time,  \* the camera_ids that have an entry in
                  \* the module dict _camera_last_detection_time
    eout,         \* history: the latest call of process_frame_for_camera,
                  \* what it returned and what the rules gave
    \* ---- outgoing track ----
    track,        \* the ProxyVideoTrack: NoTrack before its construction,
                  \* then its detector, frame_skip and _frame_index
    upstream,     \* history: the pts of the frames that source.recv()
                  \* returned, in order
    emitted       \* history: the frames that recv() returned, in order

schedVars == <<now, cameras, agents, tasks, written, op>>
hubVars == <<channels, last_frame, subscribers, queue, qstate, published,
             qchan, subAt, delivered, hop>>

relayVars == <<clients, cstate, cid, alive, last_offer, last_answer, iter,
               rop>>

rulesVars == <<dets, rphase, rcall>>

senderVars == <<sphase, pc_state, ws_state, connection_established,
                since_heartbeat, since_alert, sessions, sop>>

engineVars == <<camera_last_detection_time, eout>>

trackVars == <<track, upstream, emitted>>

vars == <<schedVars, hubVars, relayVars, rulesVars, senderVars, engineVars,
          trackVars>>

\* what the operations of each subsystem leave alone
notSched == <<hubVars, relayVars, rulesVars, senderVars,
      engineVars, trackVars>>
notHub == <<schedVars, relayVars, rulesVars, senderVars,
      engineVars, trackVars>>
notRelay == <<schedVars, hubVars, rulesVars, senderVars,
      engineVars, trackVars>>
notRules == <<schedVars, hubVars, relayVars, senderVars,
      engineVars, trackVars>>
notSender == <<schedVars, hubVars, relayVars, rulesVars,
      engineVars, trackVars>>
notEngine == <<relayVars, rulesVars, senderVars, trackVars>>
notTrack == <<schedVars, hubVars, relayVars, rulesVars, senderVars,
      engineVars>>

(***************************************************************************)
(* Bounds                                                                  *)
(***************************************************************************)
MaxTime == 4
MaxPublish == 5

\* the agent_ids in use, in the order in which find returns their documents
AgentOrder == <<"agent_001", "agent_002">>
AgentIds == {AgentOrder[i] : i \in 1..Len(AgentOrder)}
CameraIds == {"cam1", "cam2"}
\* the cameras that get registered while the scheduler is observed
SchedCameras == {"cam1"}
Times == 0..MaxTime
\* <<start_at, end_at>> of a registered agent: a proper window, an empty one
\* and an inverted one; the clock passes through a time before, at, strictly
\* between and after the two ends
Windows == {<<1, MaxTime - 1>>, <<1, 1>>, <<MaxTime - 1, 1>>}
Statuses == {"pending", "running", "terminated"}
RunModes == {"scheduled", "continuous"}
\* model_ids as registered: empty or naming one model
ModelIdLists == {<<>>, <<"yolov8n.pt">>}

(***************************************************************************)
(* Agent registration API (app/api/agents.py, app/api/cameras.py)          *)
(***************************************************************************)
\* AgentCreate: the fields of a registration payload that the core reads
AgentCreate ==
    {[camera_id |-> c, model_ids |-> m, run_mode |-> r, status |-> s,
      start_at |-> w[1], end_at |-> w[2]] :
        c \in CameraIds, m \in ModelIdLists, r \in RunModes,
        s \in Statuses, w \in Windows}

\* add_camera: upsert of a camera document
add_camera(c) ==
    /\ cameras' = cameras \cup {c}
    /\ op' = "add_camera"
    /\ written' = {}
    /\ UNCHANGED <<now, agents, tasks>>
    /\ UNCHANGED notSched

\* upsert_agent: 404 when the camera is unknown, else $set of the whole
\* payload (status included) on the document with this agent_id, upsert=True
upsert_agent(a, payload) ==
    /\ payload.camera_id \in cameras
    /\ agents' = [x \in (DOMAIN agents) \cup {a} |->
                      IF x = a THEN payload ELSE agents[x]]
    /\ op' = "upsert"
    /\ written' = {}
    /\ UNCHANGED <<now, cameras, tasks>>
    /\ UNCHANGED notSched

(***************************************************************************)
(* Agent scheduler (app/agent_scheduler.py)                                *)
(***************************************************************************)
\* the status decision with the end of the window included in it
NewStatus_EndInclusive(t, start_at, end_at) ==
    IF t < start_at THEN "pending"
    ELSE IF start_at <= t /\ t <= end_at THEN "running"
    ELSE "terminated"

\* the status decision of one sweep iteration (lines 61-69)
NewStatus(t, start_at, end_at) ==
    IF t < start_at THEN "pending"
    ELSE IF start_at <= t /\ t < end_at THEN "running"
    ELSE "terminated"

\* The body of the try block of one sweep, from the i-th agent on, over the
\* store contents docs; writes collects the update_one calls that succeeded.
\* failAt = 0: find raises; failAt = k: the update_one issued for the k-th
\* agent raises; failAt > Len(AgentOrder): no call raises.
\* Result: the store contents, the writes and whether the body completed.
RECURSIVE SweepFrom(_, _, _, _, _)
\* the sweep issuing update_one for every document it reads
SweepFrom_WritesAlways(docs, writes, i, t, failAt) ==
    IF i > Len(AgentOrder)
    THEN [docs |-> docs, writes |-> writes, ok |-> TRUE]
    ELSE LET a == AgentOrder[i]
         IN  IF a \notin DOMAIN docs \/ docs[a].status = "terminated"
             THEN SweepFrom(docs, writes, i + 1, t, failAt)
             ELSE LET current_status == docs[a].status
                      new_status ==
                          NewStatus(t, docs[a].start_at, docs[a].end_at)
                  IN  IF failAt = i
                      THEN [docs |-> docs, writes |-> writes, ok |-> FALSE]
                      ELSE SweepFrom(
                               [docs EXCEPT ![a].status = new_status],
                               writes \cup {[agent_id |-> a,
                                             from |-> current_status,
                                             to |-> new_status]},
                               i + 1, t, failAt)

\* the sweep with the filter of its find on the wrong status: it reads the
\* documents that are not running, the terminated ones among them
SweepFrom_FiltersRunning(docs, writes, i, t, failAt) ==
    IF i > Len(AgentOrder)
    THEN [docs |-> docs, writes |-> writes, ok |-> TRUE]
    ELSE LET a == AgentOrder[i]
         IN  IF a \notin DOMAIN docs \/ docs[a].status = "running"
             THEN SweepFrom(docs, writes, i + 1, t, failAt)
             ELSE LET current_status == docs[a].status
                      new_status ==
                          NewStatus(t, docs[a].start_at, docs[a].end_at)
                  IN  IF new_status # current_status
                      THEN IF failAt = i
                           THEN [docs |-> docs, writes |-> writes,
                                 ok |-> FALSE]
                           ELSE SweepFrom(
                                    [docs EXCEPT ![a].status = new_status],
                                    writes \cup {[agent_id |-> a,
                                                  from |-> current_status,
                                                  to |-> new_status]},
                                    i + 1, t, failAt)
                      ELSE SweepFrom(docs, writes, i + 1, t, failAt)

\* the sweep reading every document, the terminated ones included
SweepFrom_ReadsTerminated(docs, writes, i, t, failAt) ==
    IF i > Len(AgentOrder)
    THEN [docs |-> docs, writes |-> writes, ok |-> TRUE]
    ELSE LET a == AgentOrder[i]
         IN  IF a \notin DOMAIN docs
             THEN SweepFrom(docs, writes, i + 1, t, failAt)
             ELSE LET current_status == docs[a].status
                      new_status ==
                          NewStatus(t, docs[a].start_at, docs[a].end_at)
                  IN  IF new_status # current_status
                      THEN IF failAt = i
                           THEN [docs |-> docs, writes |-> writes,
                                 ok |-> FALSE]
                           ELSE SweepFrom(
                                    [docs EXCEPT ![a].status = new_status],
                                    writes \cup {[agent_id |-> a,
                                                  from |-> current_status,
                                                  to |-> new_status]},
                                    i + 1, t, failAt)
                      ELSE SweepFrom(docs, writes, i + 1, t, failAt)

SweepFrom(docs, writes, i, t, failAt) ==
    IF i > Len(AgentOrder)
    THEN [docs |-> docs, writes |-> writes, ok |-> TRUE]
    ELSE LET a == AgentOrder[i]
         IN  IF a \notin DOMAIN docs \/ docs[a].status = "terminated"
             THEN SweepFrom(docs, writes, i + 1, t, failAt) \* not in find
             ELSE LET current_status == docs[a].status
                      new_status ==
                          NewStatus(t, docs[a].start_at, docs[a].end_at)
                  IN  IF new_status # current_status
                      THEN IF failAt = i
                           THEN [docs |-> docs, writes |-> writes,
                                 ok |-> FALSE]
                           ELSE SweepFrom(
                                    [docs EXCEPT ![a].status = new_status],
                                    writes \cup {[agent_id |-> a,
                                                  from |-> current_status,
                                                  to |-> new_status]},
                                    i + 1, t, failAt)
                      ELSE SweepFrom(docs, writes, i + 1, t, failAt)

SweepBody(docs, t, failAt) ==
    IF failAt = 0 THEN [docs |-> docs, writes |-> {}, ok |-> FALSE]
    ELSE SweepFrom(docs, {}, 1, t, failAt)

\* start_agent_scheduler, run once by the startup event of app/main.py: the
\* only create_task of the module (line 137)
start_agent_scheduler ==
    /\ tasks = <<>>
    /\ tasks' = Append(tasks, "scheduler")
    /\ op' = "start"
    /\ written' = {}
    /\ UNCHANGED <<now, cameras, agents>>
    /\ UNCHANGED notSched

\* a loop whose iteration lets the store's exception out: the task ends
Sweep_ExitOnError(failAt) ==
    /\ \E i \in 1..Len(tasks) : tasks[i] = "scheduler"
    /\ LET r == SweepBody(agents, now, failAt)
       IN  /\ agents' = r.docs
           /\ written' = r.writes
           /\ op' = IF r.ok THEN "sweep_ok" ELSE "sweep_err"
           /\ tasks' = IF r.ok THEN tasks ELSE <<>>
    /\ UNCHANGED <<now, cameras>>
    /\ UNCHANGED notSched

\* one iteration of the while loop of _agent_status_loop: read the clock,
\* run the sweep body, catch whatever the store raised, go to sleep
Sweep(failAt) ==
    /\ \E i \in 1..Len(tasks) : tasks[i] = "scheduler"
    /\ LET r == SweepBody(agents, now, failAt)
       IN  /\ agents' = r.docs
           /\ written' = r.writes
           /\ op' = IF r.ok THEN "sweep_ok" ELSE "sweep_err"
    /\ UNCHANGED <<now, cameras, tasks>>
    /\ UNCHANGED notSched

\* the wall clock advances (asyncio.sleep between sweeps, time between calls)
Tick ==
    /\ now < MaxTime
    /\ now' = now + 1
    /\ op' = "tick"
    /\ written' = {}
    /\ UNCHANGED <<cameras, agents, tasks>>
    /\ UNCHANGED notSched

RECURSIVE RuntimesFrom(_, _, _)
\* the runtime builder giving up at the first document without model_ids
RuntimesFrom_StopAtEmpty(docs, camera_id, i) ==
    IF i > Len(AgentOrder) THEN <<>>
    ELSE LET a == AgentOrder[i]
         IN  IF a \in DOMAIN docs /\ docs[a].camera_id = camera_id
                  /\ docs[a].status = "running"
             THEN IF docs[a].model_ids = <<>>
                  THEN <<>>
                  ELSE <<[agent_id |-> a, camera_id |-> camera_id,
                          model |-> docs[a].model_ids[1]]>>
                       \o RuntimesFrom(docs, camera_id, i + 1)
             ELSE RuntimesFrom(docs, camera_id, i + 1)

\* the runtime builder taking every document that is not terminated
RuntimesFrom_NotTerminated(docs, camera_id, i) ==
    IF i > Len(AgentOrder) THEN <<>>
    ELSE LET a == AgentOrder[i]
         IN  IF a \in DOMAIN docs /\ docs[a].camera_id = camera_id
                  /\ docs[a].status # "terminated"
             THEN IF docs[a].model_ids = <<>>
                  THEN RuntimesFrom(docs, camera_id, i + 1)
                  ELSE <<[agent_id |-> a, camera_id |-> camera_id,
                          model |-> docs[a].model_ids[1]]>>
                       \o RuntimesFrom(docs, camera_id, i + 1)
             ELSE RuntimesFrom(docs, camera_id, i + 1)

\* build_agent_runtimes_for_camera (engine.py lines 36-64): one AgentRuntime
\* per document of the camera with status running and non-empty model_ids,
\* scanning the documents from the i-th agent on
RuntimesFrom(docs, camera_id, i) ==
    IF i > Len(AgentOrder) THEN <<>>
    ELSE LET a == AgentOrder[i]
         IN  IF a \in DOMAIN docs /\ docs[a].camera_id = camera_id
                  /\ docs[a].status = "running"
             THEN IF docs[a].model_ids = <<>>
                  THEN RuntimesFrom(docs, camera_id, i + 1)
                  ELSE <<[agent_id |-> a, camera_id |-> camera_id,
                          model |-> docs[a].model_ids[1]]>>
                       \o RuntimesFrom(docs, camera_id, i + 1)
             ELSE RuntimesFrom(docs, camera_id, i + 1)

build_agent_runtimes_for_camera(docs, camera_id) ==
    RuntimesFrom(docs, camera_id, 1)

\* get_running_agents_for_camera (agent_scheduler.py lines 87-110)
get_running_agents_for_camera(docs, camera_id) ==
    build_agent_runtimes_for_camera(docs, camera_id)

(***************************************************************************)
(* Shared frame hub (app/shared_hub/hub.py)                                *)
(***************************************************************************)
\* max_sub_queue: the bound of every subscriber queue
max_sub_queue == 3

\* channel names: a camera channel and an agent output channel
ChannelIds == {"cam1", "agent:agent_001"}
\* the queue objects, in the order in which subscribe creates them
QueueOrder == <<"q1", "q2">>
QueueIds == {QueueOrder[i] : i \in 1..Len(QueueOrder)}
NoFrame == <<>>
NoChannel == "none"
\* hop when the latest hub operation was not a publish
NoPublish == [name |-> "other", dead |-> {}]
\* the frame handed to the k-th publish call on channel c
Frame(c, k) == <<c, k>>

\* list.remove(q): drop the first occurrence of q; ValueError when absent
RECURSIVE ListRemove(_, _)
\* a remove that drops the first entry of the list, whatever it is
ListRemove_Head(list, q) ==
    IF list = <<>> THEN <<>> ELSE Tail(list)

ListRemove(list, q) ==
    IF list = <<>> THEN <<>>
    ELSE IF Head(list) = q THEN Tail(list)
    ELSE <<Head(list)>> \o ListRemove(Tail(list), q)

InList(list, q) == \E i \in 1..Len(list) : list[i] = q

\* asyncio.Queue.full()
QFull(items) == Len(items) >= max_sub_queue

\* the try block putting the frame without making room, into a queue that
\* accepts it
PutDropOldest_NoEvict(items, state, frame) ==
    IF state = "shutdown"
    THEN [items |-> items, dead |-> TRUE]
    ELSE [items |-> Append(items, frame), dead |-> FALSE]

\* the try block putting the frame at the front of the queue
PutDropOldest_PutFront(items, state, frame) ==
    LET room == IF QFull(items) THEN Tail(items) ELSE items
    IN  IF state = "shutdown" \/ QFull(room)
        THEN [items |-> room, dead |-> TRUE]
        ELSE [items |-> <<frame>> \o room, dead |-> FALSE]

\* The try block of publish for one subscriber queue holding items: make room
\* when full, then put_nowait.  put_nowait raises on a queue that was shut
\* down or is (still) full; the exception is caught and the queue is reported
\* dead.
PutDropOldest(items, state, frame) ==
    LET room == IF QFull(items) THEN Tail(items) ELSE items
    IN  IF state = "shutdown" \/ QFull(room)
        THEN [items |-> room, dead |-> TRUE]
        ELSE [items |-> Append(room, frame), dead |-> FALSE]

\* the for loop of publish over the snapshot list(self._subscribers), from
\* its i-th entry on: the queue contents afterwards and the dead queues
RECURSIVE PublishLoop(_, _, _, _, _)
\* the for loop left at the first queue whose put raises
PublishLoop_StopAtDead(snapshot, i, frame, qs, dead_queues) ==
    IF i > Len(snapshot) THEN [queue |-> qs, dead_queues |-> dead_queues]
    ELSE LET q == snapshot[i]
             r == PutDropOldest(qs[q], qstate[q], frame)
         IN  IF r.dead
             THEN [queue |-> [qs EXCEPT ![q] = r.items],
                   dead_queues |-> Append(dead_queues, q)]
             ELSE PublishLoop(snapshot, i + 1, frame,
                              [qs EXCEPT ![q] = r.items], dead_queues)

PublishLoop(snapshot, i, frame, qs, dead_queues) ==
    IF i > Len(snapshot) THEN [queue |-> qs, dead_queues |-> dead_queues]
    ELSE LET q == snapshot[i]
             r == PutDropOldest(qs[q], qstate[q], frame)
         IN  PublishLoop(snapshot, i + 1, frame,
                         [qs EXCEPT ![q] = r.items],
                         IF r.dead THEN Append(dead_queues, q)
                         ELSE dead_queues)

\* the removal of the dead queues from the subscriber list
RECURSIVE RemoveAll(_, _)
RemoveAll(list, dead_queues) ==
    IF dead_queues = <<>> THEN list
    ELSE RemoveAll(ListRemove(list, Head(dead_queues)), Tail(dead_queues))

\* the number of publish calls so far, over all channels
RECURSIVE SumOver(_, _)
SumOver(f, S) ==
    IF S = {} THEN 0
    ELSE LET x == CHOOSE y \in S : TRUE IN f[x] + SumOver(f, S \ {x})

PublishedTotal == SumOver(published, ChannelIds)

\* publish storing the latest frame only after the early return
publish_StoreAfterReturn(c) ==
    /\ PublishedTotal < MaxPublish
    /\ LET frame == Frame(c, published[c] + 1)
           r == PublishLoop(subscribers[c], 1, frame, queue, <<>>)
       IN  /\ channels' = channels \cup {c}
           /\ published' = [published EXCEPT ![c] = @ + 1]
           /\ IF subscribers[c] = <<>>
              THEN UNCHANGED <<queue, subscribers, last_frame>>
              ELSE /\ queue' = r.queue
                   /\ last_frame' = [last_frame EXCEPT ![c] = frame]
                   /\ subscribers' =
                          [subscribers EXCEPT
                               ![c] = RemoveAll(@, r.dead_queues)]
           /\ hop' = [name |-> "publish",
                      dead |-> IF subscribers[c] = <<>> THEN {}
                               ELSE {r.dead_queues[i] :
                                         i \in 1..Len(r.dead_queues)}]
    /\ UNCHANGED <<qstate, qchan, subAt, delivered>>
    /\ UNCHANGED notHub

\* SharedFrameHub.publish(camera_id, frame) -> CameraChannel.publish(frame)
publish(c) ==
    /\ PublishedTotal < MaxPublish
    /\ LET frame == Frame(c, published[c] + 1)
           r == PublishLoop(subscribers[c], 1, frame, queue, <<>>)
       IN  /\ channels' = channels \cup {c}
           /\ last_frame' = [last_frame EXCEPT ![c] = frame]
           /\ published' = [published EXCEPT ![c] = @ + 1]
           /\ IF subscribers[c] = <<>>
              THEN UNCHANGED <<queue, subscribers>>
              ELSE /\ queue' = r.queue
                   /\ subscribers' =
                          [subscribers EXCEPT
                               ![c] = RemoveAll(@, r.dead_queues)]
           /\ hop' = [name |-> "publish",
                      dead |-> IF subscribers[c] = <<>> THEN {}
                               ELSE {r.dead_queues[i] :
                                         i \in 1..Len(r.dead_queues)}]
    /\ UNCHANGED <<qstate, qchan, subAt, delivered>>
    /\ UNCHANGED notHub

\* subscribe without the seeding of the latest frame
subscribe_NoSeed(c, q) ==
    /\ qstate[q] = "unused"
    /\ \E i \in 1..Len(QueueOrder) :
           /\ QueueOrder[i] = q
           /\ \A k \in 1..(i - 1) : qstate[QueueOrder[k]] # "unused"
    /\ channels' = channels \cup {c}
    /\ qstate' = [qstate EXCEPT ![q] = "open"]
    /\ subscribers' = [subscribers EXCEPT ![c] = Append(@, q)]
    /\ queue' = [queue EXCEPT ![q] = <<>>]
    /\ qchan' = [qchan EXCEPT ![q] = c]
    /\ subAt' = [subAt EXCEPT ![q] = published[c]]
    /\ hop' = NoPublish
    /\ UNCHANGED <<last_frame, published, delivered>>
    /\ UNCHANGED notHub

\* SharedFrameHub.subscribe(camera_id) -> CameraChannel.subscribe(): q is the
\* queue object that the call creates
subscribe(c, q) ==
    /\ qstate[q] = "unused"
    /\ \E i \in 1..Len(QueueOrder) :
           /\ QueueOrder[i] = q
           /\ \A k \in 1..(i - 1) : qstate[QueueOrder[k]] # "unused"
    /\ channels' = channels \cup {c}
    /\ qstate' = [qstate EXCEPT ![q] = "open"]
    /\ subscribers' = [subscribers EXCEPT ![c] = Append(@, q)]
    /\ queue' = [queue EXCEPT
                     ![q] = IF last_frame[c] # NoFrame
                            THEN <<last_frame[c]>> ELSE <<>>]
    /\ qchan' = [qchan EXCEPT ![q] = c]
    /\ subAt' = [subAt EXCEPT ![q] = published[c]]
    /\ hop' = NoPublish
    /\ UNCHANGED <<last_frame, published, delivered>>
    /\ UNCHANGED notHub

\* an unsubscribe that removes the queue from the list of every channel
unsubscribe_EveryChannel(c, q) ==
    /\ qstate[q] # "unused"
    /\ channels' = channels \cup {c}
    /\ subscribers' = [d \in ChannelIds |-> ListRemove(subscribers[d], q)]
    /\ hop' = NoPublish
    /\ UNCHANGED <<last_frame, queue, qstate, published, qchan, subAt,
                   delivered>>
    /\ UNCHANGED notHub

\* SharedFrameHub.unsubscribe(camera_id, q) -> CameraChannel.unsubscribe(q),
\* called with any queue object that exists
unsubscribe(c, q) ==
    /\ qstate[q] # "unused"
    /\ channels' = channels \cup {c}
    /\ subscribers' = [subscribers EXCEPT ![c] = ListRemove(@, q)]
    /\ hop' = NoPublish
    /\ UNCHANGED <<last_frame, queue, qstate, published, qchan, subAt,
                   delivered>>
    /\ UNCHANGED notHub

\* SharedFrameHub.get_latest(camera_id) -> CameraChannel.get_latest()
get_latest(c) ==
    /\ channels' = channels \cup {c}
    /\ hop' = NoPublish
    /\ UNCHANGED <<last_frame, subscribers, queue, qstate, published, qchan,
                   subAt, delivered>>
    /\ UNCHANGED notHub

\* a consumer takes the oldest frame of its queue (frame = await q.get())
Dequeue(q) ==
    /\ qstate[q] # "unused"
    /\ queue[q] # <<>>
    /\ queue' = [queue EXCEPT ![q] = Tail(@)]
    /\ delivered' = [delivered EXCEPT ![q] = Head(queue[q])]
    /\ hop' = NoPublish
    /\ UNCHANGED <<channels, last_frame, subscribers, qstate, published,
                   qchan, subAt>>
    /\ UNCHANGED notHub

\* the owner of a queue tears it down: put_nowait raises from now on
Shutdown(q) ==
    /\ qstate[q] = "open"
    /\ qstate' = [qstate EXCEPT ![q] = "shutdown"]
    /\ hop' = NoPublish
    /\ UNCHANGED <<channels, last_frame, subscribers, queue, published,
                   qchan, subAt, delivered>>
    /\ UNCHANGED notHub

(***************************************************************************)
(* Initial state and steps of the hub                                      *)
(***************************************************************************)
HubInit ==
    /\ channels = {}
    /\ last_frame = [c \in ChannelIds |-> NoFrame]
    /\ subscribers = [c \in ChannelIds |-> <<>>]
    /\ queue = [q \in QueueIds |-> <<>>]
    /\ qstate = [q \in QueueIds |-> "unused"]
    /\ published = [c \in ChannelIds |-> 0]
    /\ qchan = [q \in QueueIds |-> NoChannel]
    /\ subAt = [q \in QueueIds |-> 0]
    /\ delivered = [q \in QueueIds |-> NoFrame]
    /\ hop = NoPublish

HubNext ==
    \/ \E c \in ChannelIds : publish(c)
    \/ \E c \in ChannelIds, q \in QueueIds : subscribe(c, q)
    \/ \E c \in ChannelIds, q \in QueueIds : unsubscribe(c, q)
    \/ \E c \in ChannelIds : get_latest(c)
    \/ \E q \in QueueIds : Dequeue(q)
    \/ \E q \in QueueIds : Shutdown(q)


(***************************************************************************)
(* Signaling relay (app/signaling_server/signaling_server.py)              *)
(***************************************************************************)

\* the connections, in the order in which the server accepts them
ConnOrder == <<"k1", "k2", "k3">>
ConnIds == {ConnOrder[i] : i \in 1..Len(ConnOrder)}
\* the client ids "camera:u1", "viewer:u1" and "guest", split at their
\* first colon
ClientIds == {<<"camera", "u1">>, <<"viewer", "u1">>, <<"guest">>}
\* a `to` field that is missing (msg.get("to") is None)
NoTarget == <<>>
\* the values of `to` in use
Targets == {NoTarget, <<"camera", "u1">>, <<"viewer", "u1">>}
\* Python's None, for the string-valued fields
None == "None"
Sdps == {None, "sdp_a", "sdp_b"}
AnswerSdps == {"sdp_a"}
Candidates == {"", "cand"}
OtherTypes == {"ice-complete", "ping", "fall_alert"}

\* a signaling message: the JSON object with its fields
Msg(type, from, to, sdp, candidate) ==
    [type |-> type, from |-> from, to |-> to, sdp |-> sdp,
     candidate |-> candidate]

NoMsg == Msg("none", NoTarget, NoTarget, None, None)

\* the frames a client with id `from` may send
Messages(from) ==
    {Msg("offer", from, t, s, None) : t \in Targets, s \in Sdps}
    \cup {Msg("answer", from, t, s, None) : t \in Targets, s \in AnswerSdps}
    \cup {Msg("ice", from, t, None, c) : t \in Targets, c \in Candidates}
    \cup {Msg(ty, from, t, None, None) : ty \in OtherTypes, t \in Targets}

\* a deleted entry of the dict's entry table
Hole == [id |-> NoTarget, conn |-> "none"]

NoIter ==
    [pos |-> 0, used |-> 0, len |-> 0, msg |-> NoMsg, got |-> {},
     reg0 |-> <<>>]

\* the record kept in rop for a step that is not part of a broadcast
Step(name, k, out) ==
    [name |-> name, k |-> k, out |-> out, bcast |-> "none", got |-> {},
     stable |-> TRUE]

\* client_id.startswith("camera")
StartsWithCamera(id) == Len(id) > 0 /\ id[1] = "camera"

\* ":" in client_id
HasColon(id) == Len(id) > 1

\* _, user_part = client_id.split(":", 1); f"camera:{user_part}"
CameraPeerId(id) == <<"camera", id[2]>>

\* the truth value Python gives a string field; a missing field is None
Truthy(x) == x # None /\ x # ""

\* the truth value of msg.get("to")
HasTarget(msg) == msg.to # NoTarget

\* dict operations on the entry table
SlotOf(reg, id) ==
    LET S == {i \in 1..Len(reg) : reg[i] # Hole /\ reg[i].id = id}
    IN  IF S = {} THEN 0 ELSE CHOOSE i \in S : TRUE

InClients(reg, id) == SlotOf(reg, id) # 0

ConnOf(reg, id) == reg[SlotOf(reg, id)].conn

SetItem(reg, id, k) ==
    IF InClients(reg, id)
    THEN [reg EXCEPT ![SlotOf(reg, id)] = [id |-> id, conn |-> k]]
    ELSE Append(reg, [id |-> id, conn |-> k])

DelItem(reg, id) == [reg EXCEPT ![SlotOf(reg, id)] = Hole]

\* len(clients): the dict's ma_used
Used(reg) == Cardinality({i \in 1..Len(reg) : reg[i] # Hole})

\* websocket.send_text on connection c: the message arrives when the peer
\* still holds the socket open, and raises otherwise
Deliver(c, msg) == IF alive[c] THEN {<<c, msg>>} ELSE {}

\* a forward that relabels what it forwards as an ice message
Forward_AsIce(msg) ==
    IF HasTarget(msg) /\ InClients(clients, msg.to)
    THEN Deliver(ConnOf(clients, msg.to), [msg EXCEPT !.type = "ice"])
    ELSE {}

\* `if target and target in clients: await clients[target].websocket
\* .send_text(data)` with its exception handler
Forward(msg) ==
    IF HasTarget(msg) /\ InClients(clients, msg.to)
    THEN Deliver(ConnOf(clients, msg.to), msg)
    ELSE {}

\* pong_msg = {"type": "pong", "from": "signaling"}
pong_msg == Msg("pong", <<"signaling">>, NoTarget, None, None)

\* a ping branch that also forwards the ping to the client it names
PingReply_Forwarded(k, msg) == Deliver(k, pong_msg) \cup Forward(msg)

\* the ping branch: `await websocket.send_text(json.dumps(pong_msg))` on
\* the sender's own socket, with its exception handler (lines 144-149)
PingReply(k, msg) == Deliver(k, pong_msg)

\* iter(clients.items())
NewIter(reg, msg) ==
    [pos |-> 0, used |-> Used(reg), len |-> Used(reg), msg |-> msg,
     got |-> {}, reg0 |-> reg]

\* The broadcast loop from one suspension to the next: next() on the items
\* iterator raises RuntimeError when the dict's size differs from the size
\* at creation or when it finds an entry after having yielded that many;
\* it skips deleted entries; entries of cameras are passed without a
\* suspension; the loop suspends at the send to a viewer's entry.
RECURSIVE BroadcastRun(_, _)
BroadcastRun(reg, it) ==
    IF it.used # Used(reg)
    THEN [outcome |-> "error", it |-> it, slot |-> 0]
    ELSE LET ahead == {i \in (it.pos + 1)..Len(reg) : reg[i] # Hole}
         IN  IF ahead = {}
             THEN [outcome |-> "done", it |-> it, slot |-> 0]
             ELSE LET i == CHOOSE j \in ahead : \A h \in ahead : j <= h
                      it2 == [it EXCEPT !.pos = i, !.len = @ - 1]
                  IN  IF it.len = 0
                      THEN [outcome |-> "error", it |-> it, slot |-> 0]
                      ELSE IF StartsWithCamera(reg[i].id)
                      THEN BroadcastRun(reg, it2)
                      ELSE [outcome |-> "await", it |-> it2, slot |-> i]

\* the finally block: the handler ends, the entry under its client_id is
\* deleted when there is one; the ClientState of the ended handler is
\* unreachable and is cleared
Ended(k) ==
    /\ clients' = IF InClients(clients, cid[k])
                  THEN DelItem(clients, cid[k])
                  ELSE clients
    /\ cstate' = [cstate EXCEPT ![k] = "ended"]
    /\ cid' = [cid EXCEPT ![k] = NoTarget]
    /\ alive' = [alive EXCEPT ![k] = FALSE]
    /\ last_offer' = [last_offer EXCEPT ![k] = None]
    /\ last_answer' = [last_answer EXCEPT ![k] = None]
    /\ iter' = [iter EXCEPT ![k] = NoIter]

\* a replay that does not look at whether the publisher has stored an offer
Replay_NoOfferCheck(reg, id, k) ==
    IF /\ ~StartsWithCamera(id)
       /\ HasColon(id)
       /\ InClients(reg, CameraPeerId(id))
    THEN {<<k, Msg("offer", CameraPeerId(id), id,
                   last_offer[ConnOf(reg, CameraPeerId(id))], None)>>}
    ELSE {}

\* the message replayed to a connecting viewer, if any (lines 53-72)
Replay(reg, id, k) ==
    IF /\ ~StartsWithCamera(id)
       /\ HasColon(id)
       /\ InClients(reg, CameraPeerId(id))
       /\ Truthy(last_offer[ConnOf(reg, CameraPeerId(id))])
    THEN {<<k, Msg("offer", CameraPeerId(id), id,
                   last_offer[ConnOf(reg, CameraPeerId(id))], None)>>}
    ELSE {}

\* a client connects with client_id `id`: accept, register, replay
Connect(k, id) ==
    /\ cstate[k] = "new"
    /\ \A i \in 1..Len(ConnOrder) :
          ConnOrder[i] = k => \A j \in 1..(i - 1) : cstate[ConnOrder[j]] # "new"
    /\ clients' = SetItem(clients, id, k)
    /\ cstate' = [cstate EXCEPT ![k] = "open"]
    /\ cid' = [cid EXCEPT ![k] = id]
    /\ alive' = [alive EXCEPT ![k] = TRUE]
    /\ rop' = Step("connect", k, Replay(SetItem(clients, id, k), id, k))
    /\ UNCHANGED <<last_offer, last_answer, iter>>
    /\ UNCHANGED notRelay

\* the message is one that this handler sends on to the client under its
\* `to`, and that client's socket is closed
SendFails(k, msg) ==
    /\ HasTarget(msg) /\ InClients(clients, msg.to)
    /\ ~alive[ConnOf(clients, msg.to)]
    /\ \/ msg.type = "offer" /\ StartsWithCamera(cid[k])
       \/ msg.type = "answer" /\ ~StartsWithCamera(cid[k])
       \/ msg.type \in {"ice", "ice-complete"}

\* a receive loop in which the exception of a failed send_text to the
\* target is not handled: it ends the sender's handler
ReceiveMsg_SendRaises(k, msg) ==
    IF SendFails(k, msg)
    THEN /\ cstate[k] = "open"
         /\ alive[k]
         /\ Ended(k)
         /\ rop' = Step("receive", k, {})
         /\ UNCHANGED notRelay
    ELSE
         /\ cstate[k] = "open"
         /\ alive[k]
         /\ LET is_camera == StartsWithCamera(cid[k])
                routed == HasTarget(msg) /\ InClients(clients, msg.to)
                r == BroadcastRun(clients, NewIter(clients, msg))
                viewer == clients[r.slot].conn
            IN  CASE msg.type = "offer" /\ is_camera /\ routed ->
                       /\ last_offer' = [last_offer EXCEPT ![k] = msg.sdp]
                       /\ rop' = Step("receive", k, Forward(msg))
                       /\ UNCHANGED <<cstate, iter, last_answer>>
                  [] msg.type = "offer" /\ is_camera /\ ~routed
                       /\ r.outcome = "await" ->
                       /\ last_offer' = [last_offer EXCEPT ![k] = msg.sdp]
                       /\ cstate' = [cstate EXCEPT ![k] = "bcast"]
                       /\ iter' = [iter EXCEPT ![k] =
                                      [r.it EXCEPT !.got = {viewer}]]
                       /\ rop' = [name |-> "receive", k |-> k,
                                  out |-> Deliver(viewer, msg),
                                  bcast |-> "await", got |-> {viewer},
                                  stable |-> TRUE]
                       /\ UNCHANGED last_answer
                  [] msg.type = "offer" /\ is_camera /\ ~routed
                       /\ r.outcome # "await" ->
                       /\ last_offer' = [last_offer EXCEPT ![k] = msg.sdp]
                       /\ rop' = [name |-> "receive", k |-> k,
                                  out |-> {}, bcast |-> "done", got |-> {},
                                  stable |-> TRUE]
                       /\ UNCHANGED <<cstate, iter, last_answer>>
                  [] msg.type = "answer" /\ ~is_camera ->
                       /\ last_answer' = [last_answer EXCEPT ![k] = msg.sdp]
                       /\ rop' = Step("receive", k, Forward(msg))
                       /\ UNCHANGED <<cstate, iter, last_offer>>
                  [] msg.type \in {"ice", "ice-complete"} ->
                       /\ rop' = Step("receive", k, Forward(msg))
                       /\ UNCHANGED <<cstate, iter, last_offer, last_answer>>
                  [] msg.type = "ping" ->
                       /\ rop' = Step("receive", k, PingReply(k, msg))
                       /\ UNCHANGED <<cstate, iter, last_offer, last_answer>>
                  [] OTHER ->
                       /\ rop' = Step("receive", k, {})
                       /\ UNCHANGED <<cstate, iter, last_offer, last_answer>>
         /\ UNCHANGED <<clients, cid, alive>>
         /\ UNCHANGED notRelay

\* one turn of the receive loop on a frame that parses to a JSON object
\* (lines 76-152); a publisher's offer with no registered target starts
\* the broadcast loop and runs it up to its first suspension
ReceiveMsg(k, msg) ==
    /\ cstate[k] = "open"
    /\ alive[k]
    /\ LET is_camera == StartsWithCamera(cid[k])
           routed == HasTarget(msg) /\ InClients(clients, msg.to)
           r == BroadcastRun(clients, NewIter(clients, msg))
           viewer == clients[r.slot].conn
       IN  CASE msg.type = "offer" /\ is_camera /\ routed ->
                  /\ last_offer' = [last_offer EXCEPT ![k] = msg.sdp]
                  /\ rop' = Step("receive", k, Forward(msg))
                  /\ UNCHANGED <<cstate, iter, last_answer>>
             [] msg.type = "offer" /\ is_camera /\ ~routed
                  /\ r.outcome = "await" ->
                  /\ last_offer' = [last_offer EXCEPT ![k] = msg.sdp]
                  /\ cstate' = [cstate EXCEPT ![k] = "bcast"]
                  /\ iter' = [iter EXCEPT ![k] =
                                 [r.it EXCEPT !.got = {viewer}]]
                  /\ rop' = [name |-> "receive", k |-> k,
                             out |-> Deliver(viewer, msg),
                             bcast |-> "await", got |-> {viewer},
                             stable |-> TRUE]
                  /\ UNCHANGED last_answer
             [] msg.type = "offer" /\ is_camera /\ ~routed
                  /\ r.outcome # "await" ->
                  /\ last_offer' = [last_offer EXCEPT ![k] = msg.sdp]
                  /\ rop' = [name |-> "receive", k |-> k,
                             out |-> {}, bcast |-> "done", got |-> {},
                             stable |-> TRUE]
                  /\ UNCHANGED <<cstate, iter, last_answer>>
             [] msg.type = "answer" /\ ~is_camera ->
                  /\ last_answer' = [last_answer EXCEPT ![k] = msg.sdp]
                  /\ rop' = Step("receive", k, Forward(msg))
                  /\ UNCHANGED <<cstate, iter, last_offer>>
             [] msg.type \in {"ice", "ice-complete"} ->
                  /\ rop' = Step("receive", k, Forward(msg))
                  /\ UNCHANGED <<cstate, iter, last_offer, last_answer>>
             [] msg.type = "ping" ->
                  /\ rop' = Step("receive", k, PingReply(k, msg))
                  /\ UNCHANGED <<cstate, iter, last_offer, last_answer>>
             [] OTHER ->
                  /\ rop' = Step("receive", k, {})
                  /\ UNCHANGED <<cstate, iter, last_offer, last_answer>>
    /\ UNCHANGED <<clients, cid, alive>>
    /\ UNCHANGED notRelay

\* the handler of connection k receives one of the frames its client sends
Receive(k) == \E msg \in Messages(cid[k]) : ReceiveMsg(k, msg)

\* the broadcast loop resumes after a send and runs to its next suspension,
\* to its end, or to the RuntimeError that ends the handler (lines 102-108,
\* 156-162)
BroadcastStep(k) ==
    /\ cstate[k] = "bcast"
    /\ LET r == BroadcastRun(clients, iter[k])
           viewer == clients[r.slot].conn
           stable == clients = iter[k].reg0
       IN  CASE r.outcome = "await" ->
                  /\ iter' = [iter EXCEPT ![k] =
                                 [r.it EXCEPT !.got = @ \cup {viewer}]]
                  /\ rop' = [name |-> "broadcast", k |-> k,
                             out |-> Deliver(viewer, iter[k].msg),
                             bcast |-> "await",
                             got |-> iter[k].got \cup {viewer},
                             stable |-> stable]
                  /\ UNCHANGED <<clients, cstate, cid, alive, last_offer,
                                 last_answer>>
             [] r.outcome = "done" ->
                  /\ cstate' = [cstate EXCEPT ![k] = "open"]
                  /\ iter' = [iter EXCEPT ![k] = NoIter]
                  /\ rop' = [name |-> "broadcast", k |-> k, out |-> {},
                             bcast |-> "done", got |-> iter[k].got,
                             stable |-> stable]
                  /\ UNCHANGED <<clients, cid, alive, last_offer,
                                 last_answer>>
             [] OTHER ->
                  /\ Ended(k)
                  /\ rop' = [name |-> "broadcast", k |-> k, out |-> {},
                             bcast |-> "error", got |-> iter[k].got,
                             stable |-> stable]
    /\ UNCHANGED notRelay

\* the peer closes its socket
PeerClose(k) ==
    /\ cstate[k] \in {"open", "bcast"}
    /\ alive[k]
    /\ alive' = [alive EXCEPT ![k] = FALSE]
    /\ rop' = Step("peer_close", k, {})
    /\ UNCHANGED <<clients, cstate, cid, last_offer, last_answer, iter>>
    /\ UNCHANGED notRelay

\* receive_text raises on the closed socket: the loop breaks and the
\* finally block runs (lines 77-81, 159-162)
Disconnect(k) ==
    /\ cstate[k] = "open"
    /\ ~alive[k]
    /\ Ended(k)
    /\ rop' = Step("disconnect", k, {})
    /\ UNCHANGED notRelay

\* a frame that is not a JSON object: json.loads or msg.get raises, the
\* handler ends through the finally block (lines 78-84, 156-162)
BadFrame(k) ==
    /\ cstate[k] = "open"
    /\ alive[k]
    /\ Ended(k)
    /\ rop' = Step("bad_frame", k, {})
    /\ UNCHANGED notRelay

(***************************************************************************)
(* Initial state and steps of the relay                                    *)
(***************************************************************************)
RelayInit ==
    /\ clients = <<>>
    /\ cstate = [k \in ConnIds |-> "new"]
    /\ cid = [k \in ConnIds |-> NoTarget]
    /\ alive = [k \in ConnIds |-> FALSE]
    /\ last_offer = [k \in ConnIds |-> None]
    /\ last_answer = [k \in ConnIds |-> None]
    /\ iter = [k \in ConnIds |-> NoIter]
    /\ rop = Step("init", "none", {})

RelayNext ==
    \/ \E k \in ConnIds, id \in ClientIds : Connect(k, id)
    \/ \E k \in ConnIds : Receive(k)
    \/ \E k \in ConnIds : BroadcastStep(k)
    \/ \E k \in ConnIds : PeerClose(k)
    \/ \E k \in ConnIds : Disconnect(k)
    \/ \E k \in ConnIds : BadFrame(k)

(***************************************************************************)
(* Rule engine (app/rule_engine/rule.py, app/rule_engine/engine.py)        *)
(***************************************************************************)

\* the class names a detector reports
DetClasses == {"person", "car", "dog"}
\* the longest detection list: the one of the documented example
ExampleClasses == <<"person", "car", "person", "dog">>
ClassLists ==
    UNION {[1..n -> DetClasses] : n \in 0..Len(ExampleClasses)}

\* a detection dict: its class_name, and its box standing for the rest of
\* the dict (confidence, bbox), which tells two detections of a class apart
Detection(c, i) == [class_name |-> c, box |-> i]

\* rule.type values: the two rule functions, a name the rules module does
\* not have, and two names it has through its imports (rule.py:11-12)
RuleTypes == {"class_presence", "class_count", "zone_intrusion", "AgentRule",
              "List"}
TargetClasses == {"person", "car"}
\* AgentRule.min_count: int | None, <<>> for None and <<n>> for the int n
NoMinCount == <<>>
MinCounts == {NoMinCount, <<-1>>, <<0>>, <<2>>, <<3>>}

\* an AgentRule, without its label and action; the fields that the
\* handling of its type never reads are left at one value
AgentRule ==
    {r \in [type : RuleTypes, target_class : TargetClasses,
            min_count : MinCounts] :
        /\ r.type # "class_count" => r.min_count = NoMinCount
        /\ r.type \notin {"class_presence", "class_count"}
              => r.target_class = "person"}

\* runtime.rules: up to two rules
RuleLists ==
    {<<>>} \cup {<<r>> : r \in AgentRule}
           \cup {<<r1, r2>> : r1 \in AgentRule, r2 \in AgentRule}

\* [d for d in detections if d.get("class_name") == target]
RECURSIVE Filtered(_, _)
Filtered(detections, target) ==
    IF detections = <<>> THEN <<>>
    ELSE IF Head(detections).class_name = target
    THEN <<Head(detections)>> \o Filtered(Tail(detections), target)
    ELSE Filtered(Tail(detections), target)

\* a presence rule that matches on any detection at all
class_presence_AnyDetection(rule, detections) ==
    [raised |-> FALSE, matched |-> Len(detections) > 0,
     filtered |-> Filtered(detections, rule.target_class)]

\* rule.py:15-49
class_presence(rule, detections) ==
    LET filtered == Filtered(detections, rule.target_class)
    IN  [raised |-> FALSE, matched |-> Len(filtered) > 0,
         filtered |-> filtered]

\* a count rule that returns its evidence only when the threshold is met
class_count_EvidenceOnMatch(rule, detections) ==
    LET filtered == Filtered(detections, rule.target_class)
        min_count == IF rule.min_count = NoMinCount \/ rule.min_count[1] = 0
                     THEN 1 ELSE rule.min_count[1]
    IN  [raised |-> FALSE, matched |-> Len(filtered) >= min_count,
         filtered |-> IF Len(filtered) >= min_count THEN filtered ELSE <<>>]

\* rule.py:52-97; `rule.min_count or 1` is 1 for None and for 0, and the
\* number itself otherwise
class_count(rule, detections) ==
    LET filtered == Filtered(detections, rule.target_class)
        count == Len(filtered)
        min_count == IF rule.min_count = NoMinCount \/ rule.min_count[1] = 0
                     THEN 1 ELSE rule.min_count[1]
    IN  [raised |-> FALSE, matched |-> count >= min_count,
         filtered |-> filtered]

\* getattr(rules_module, name, None): the kind of object the rules module
\* binds to the name
ModuleAttr(name) ==
    CASE name \in {"class_presence", "class_count"} -> "function"
      [] name = "AgentRule" -> "class"
      [] name \in {"Any", "Dict", "List", "Tuple"} -> "typing"
      [] OTHER -> "none"

\* handler(rule, detections): the rule functions return; the pydantic class
\* and the typing aliases raise TypeError on two positional arguments
CallHandler(rule, detections) ==
    CASE rule.type = "class_presence" -> class_presence(rule, detections)
      [] rule.type = "class_count" -> class_count(rule, detections)
      [] OTHER -> [raised |-> TRUE, matched |-> FALSE, filtered |-> <<>>]

\* the for loop of run_rules_for_agent from the i-th rule on
RECURSIVE RunRulesFrom(_, _, _, _, _)
RunRulesFrom(rules, i, detections, any_match, kept) ==
    IF i > Len(rules)
    THEN [raised |-> FALSE, matched |-> any_match, filtered |-> kept]
    ELSE IF ModuleAttr(rules[i].type) = "none"
    THEN RunRulesFrom(rules, i + 1, detections, any_match, kept)
    ELSE LET r == CallHandler(rules[i], detections)
         IN  IF r.raised THEN r
             ELSE IF r.matched
             THEN RunRulesFrom(rules, i + 1, detections, TRUE,
                               kept \o r.filtered)
             ELSE RunRulesFrom(rules, i + 1, detections, any_match, kept)

\* engine.py:67-98
run_rules_for_agent(rules, detections) ==
    RunRulesFrom(rules, 1, detections, FALSE, <<>>)

NoCall == [fn |-> "none", rules |-> <<>>, raised |-> FALSE,
           matched |-> FALSE, filtered |-> <<>>]

\* the record kept in rcall for a call of fn on rules that gave result r
Called(fn, rules, r) ==
    [fn |-> fn, rules |-> rules, raised |-> r.raised, matched |-> r.matched,
     filtered |-> r.filtered]

\* dets = run_detection(rt.model, bgr): the detector reports these classes
run_detection(classes) ==
    /\ rphase = "idle"
    /\ dets' = [i \in 1..Len(classes) |-> Detection(classes[i], i)]
    /\ rphase' = "detected"
    /\ UNCHANGED rcall
    /\ UNCHANGED notRules

\* class_presence(rule, dets) is called on its own
CallPresence(rule) ==
    /\ rphase = "detected"
    /\ rule.type = "class_presence"
    /\ rcall' = Called("class_presence", <<rule>>, class_presence(rule, dets))
    /\ rphase' = "done"
    /\ UNCHANGED dets
    /\ UNCHANGED notRules

\* class_count(rule, dets) is called on its own
CallCount(rule) ==
    /\ rphase = "detected"
    /\ rule.type = "class_count"
    /\ rcall' = Called("class_count", <<rule>>, class_count(rule, dets))
    /\ rphase' = "done"
    /\ UNCHANGED dets
    /\ UNCHANGED notRules

\* matched, filtered = run_rules_for_agent(rt, dets) (engine.py:221)
CallRunRules(rules) ==
    /\ rphase = "detected"
    /\ rcall' = Called("run_rules_for_agent", rules,
                       run_rules_for_agent(rules, dets))
    /\ rphase' = "done"
    /\ UNCHANGED dets
    /\ UNCHANGED notRules

\* the steps of the relay while only the first two connections are made
ConnPair == {ConnOrder[1], ConnOrder[2]}

RelayNextPair ==
    \/ \E k \in ConnPair, id \in ClientIds : Connect(k, id)
    \/ \E k \in ConnPair : Receive(k)
    \/ \E k \in ConnPair : BroadcastStep(k)
    \/ \E k \in ConnPair : PeerClose(k)
    \/ \E k \in ConnPair : Disconnect(k)
    \/ \E k \in ConnPair : BadFrame(k)

\* the handler of connection k receives an offer
ReceiveOffer(k) ==
    \E t \in Targets, s \in Sdps :
       ReceiveMsg(k, Msg("offer", cid[k], t, s, None))

\* the steps of the relay while the only frames sent are offers
RelayNextOffers ==
    \/ \E k \in ConnIds, id \in ClientIds : Connect(k, id)
    \/ \E k \in ConnIds : ReceiveOffer(k)
    \/ \E k \in ConnIds : BroadcastStep(k)
    \/ \E k \in ConnIds : PeerClose(k)
    \/ \E k \in ConnIds : Disconnect(k)
    \/ \E k \in ConnIds : BadFrame(k)

(***************************************************************************)
(* Initial state and steps of the rule engine                              *)
(***************************************************************************)
RulesInit ==
    /\ dets = <<>>
    /\ rphase = "idle"
    /\ rcall = NoCall

RulesNext ==
    \/ \E classes \in ClassLists : run_detection(classes)
    \/ \E rule \in AgentRule : CallPresence(rule)
    \/ \E rule \in AgentRule : CallCount(rule)
    \/ \E rules \in RuleLists : CallRunRules(rules)

(***************************************************************************)
(* Publishing process (app/streamer/sender_stream.py)                      *)
(***************************************************************************)
\* `current_time - last_heartbeat > 10` and `... - last_fall_alert_time > 3`
heartbeat_period == 10
alert_period == 3

\* the values of pc.connectionState
ConnectionStates ==
    {"new", "connecting", "connected", "disconnected", "failed", "closed"}

\* `pc.connectionState not in ["closed", "failed"]`
Terminal == {"closed", "failed"}

\* the changes of connection state that the transport makes by itself;
\* "closed" is entered by pc.close() only
Transitions ==
    {<<"new", "connecting">>, <<"connecting", "connected">>,
     <<"connecting", "failed">>, <<"connected", "disconnected">>,
     <<"disconnected", "connected">>, <<"disconnected", "failed">>}

\* what run() finds in the store and at the cameras before it connects
Setups == {"db_error", "no_users", "many_users", "no_cameras", "no_players",
           "ok"}

\* how the connect and the offer go
Openings == {"refused", "offer_error", "sent"}

\* the frames that may arrive on the signaling socket
Frames == {"invalid_json", "answer", "bad_answer", "ice", "other",
           "non_object"}

\* the phases in which a session holds its signaling socket
InSession == {"receive", "heartbeat", "recover"}

Elapsed(t, d, period) == IF t + d > period THEN period + 1 ELSE t + d

SenderStep(name, sent) == [name |-> name, sent |-> sent]

\* the `finally` of run(): `await pc.close()`, after the `async with` has
\* closed the socket; run() returns (lines 436-440)
ClosePeerConnection ==
    /\ pc_state' = "closed"
    /\ ws_state' = IF ws_state = "none" THEN "none" ELSE "closed"
    /\ sphase' = "returned"

\* `asyncio.run(run())` up to the connect: the peer connection is made, the
\* cameras are resolved and the players created; run() returns early, with
\* the peer connection closed, when there is nothing to publish, and raises
\* when the store does (lines 156-250, 452)
Main(setup) ==
    /\ sphase = "idle"
    /\ sessions' = sessions + 1
    /\ CASE setup = "ok" ->
              /\ sphase' = "connect"
              /\ pc_state' = "new"
              /\ UNCHANGED ws_state
         [] setup = "db_error" ->
              /\ sphase' = "raised"
              /\ pc_state' = "new"
              /\ UNCHANGED ws_state
         [] OTHER -> ClosePeerConnection
    /\ sop' = SenderStep("main", {})
    /\ UNCHANGED <<connection_established, since_heartbeat, since_alert>>
    /\ UNCHANGED notSender

\* websockets.connect, createOffer, setLocalDescription and the send of the
\* offer (lines 302-343); an exception goes to the handler of line 436
OpenSignaling(opening) ==
    /\ sphase = "connect"
    /\ IF opening = "sent"
       THEN /\ ws_state' = "open"
            /\ sphase' = "receive"
            /\ UNCHANGED pc_state
            /\ sop' = SenderStep("open", {"offer"})
       ELSE /\ pc_state' = "closed"
            /\ ws_state' = IF opening = "refused" THEN "none" ELSE "closed"
            /\ sphase' = "returned"
            /\ sop' = SenderStep("open", {})
    /\ UNCHANGED <<connection_established, since_heartbeat, since_alert,
                   sessions>>
    /\ UNCHANGED notSender

\* the receive loop is left: the `finally` of lines 389-434 starts the
\* keep-alive loop when an answer has been applied and the transport is
\* not terminal, and run() closes and returns otherwise
LeaveReceiveLoop ==
    IF connection_established /\ pc_state \notin Terminal
    THEN /\ sphase' = "heartbeat"
         /\ since_heartbeat' = 0
         /\ UNCHANGED pc_state
    ELSE /\ sphase' = "returned"
         /\ pc_state' = "closed"
         /\ UNCHANGED since_heartbeat

\* one frame arrives in the receive loop (lines 351-385); a frame that is
\* JSON but not an object makes message.get raise, which leaves the loop
\* with the socket open
RecvFrame(kind) ==
    /\ sphase = "receive"
    /\ ws_state = "open"
    /\ IF kind = "non_object"
       THEN /\ LeaveReceiveLoop
            /\ ws_state' = IF sphase' = "returned" THEN "closed" ELSE "open"
            /\ UNCHANGED connection_established
       ELSE /\ connection_established' =
                  (connection_established \/ kind = "answer")
            /\ UNCHANGED <<sphase, pc_state, ws_state, since_heartbeat>>
    /\ sop' = SenderStep(kind, {})
    /\ UNCHANGED <<since_alert, sessions>>
    /\ UNCHANGED notSender

\* the signaling peer closes the socket, or the socket's own keep-alive
\* gives it up: the receive loop, if the session is in it, ends
PeerCloses ==
    /\ sphase \in InSession
    /\ ws_state = "open"
    /\ ws_state' = "closed"
    /\ IF sphase = "receive"
       THEN LeaveReceiveLoop
       ELSE UNCHANGED <<sphase, pc_state, since_heartbeat>>
    /\ sop' = SenderStep("peer_closes", {})
    /\ UNCHANGED <<connection_established, since_alert, sessions>>
    /\ UNCHANGED notSender

\* the test of the `while` of line 396 at the end of an iteration
NextIteration ==
    IF pc_state \in Terminal
    THEN /\ sphase' = "returned"
         /\ pc_state' = "closed"
    ELSE /\ sphase' = "heartbeat"
         /\ UNCHANGED pc_state

\* one iteration of the keep-alive loop after its sleep(1) (lines 397-432):
\* a fall alert and a ping are sent when due and when ws.closed is false;
\* a failed ping breaks the loop; a disconnected transport adds a sleep(2).
\* fall: detector.fall_detected; send_ok: whether ws.send returns
HeartbeatWake(fall, send_ok) ==
    /\ sphase = "heartbeat"
    /\ LET t == Elapsed(since_heartbeat, 1, heartbeat_period)
           a == Elapsed(since_alert, 1, alert_period)
           alert == fall /\ a > alert_period /\ ws_state = "open"
           open == ws_state = "open" /\ (alert => send_ok)
           ping == t > heartbeat_period /\ open
           sent == (IF alert /\ send_ok THEN {"fall_alert"} ELSE {})
                   \cup (IF ping /\ send_ok THEN {"ping"} ELSE {})
       IN  /\ since_alert' = IF alert /\ send_ok THEN 0 ELSE a
           /\ since_heartbeat' = IF ping /\ send_ok THEN 0 ELSE t
           /\ sop' = SenderStep("heartbeat", sent)
           /\ IF ping /\ ~send_ok
              THEN /\ sphase' = "returned"
                   /\ pc_state' = "closed"
                   /\ ws_state' = "closed"
              ELSE /\ IF pc_state = "disconnected"
                      THEN /\ sphase' = "recover"
                           /\ UNCHANGED pc_state
                      ELSE NextIteration
                   /\ ws_state' = IF sphase' = "returned" \/ ~open
                                  THEN "closed" ELSE "open"
    /\ UNCHANGED <<connection_established, sessions>>
    /\ UNCHANGED notSender

\* the sleep(2) of line 432 is over
RecoverWake ==
    /\ sphase = "recover"
    /\ since_heartbeat' = Elapsed(since_heartbeat, 2, heartbeat_period)
    /\ since_alert' = Elapsed(since_alert, 2, alert_period)
    /\ NextIteration
    /\ ws_state' = IF sphase' = "returned" THEN "closed" ELSE ws_state
    /\ sop' = SenderStep("recover", {})
    /\ UNCHANGED <<connection_established, sessions>>
    /\ UNCHANGED notSender

\* the transport changes its connection state; on_conn_state prints it
\* (lines 164-170)
on_conn_state(state) ==
    /\ sphase \in InSession
    /\ <<pc_state, state>> \in Transitions
    /\ pc_state = "new" => connection_established
    /\ pc_state' = state
    /\ sop' = SenderStep("conn_state", {})
    /\ UNCHANGED <<sphase, ws_state, connection_established,
                   since_heartbeat, since_alert, sessions>>
    /\ UNCHANGED notSender

\* asyncio.run is over, by a return or by an exception that the handler of
\* line 455 prints: the module ends and with it the process (lines 451-456)
Exit ==
    /\ sphase \in {"returned", "raised"}
    /\ sphase' = "exited"
    /\ sop' = SenderStep("exit", {})
    /\ UNCHANGED <<pc_state, ws_state, connection_established,
                   since_heartbeat, since_alert, sessions>>
    /\ UNCHANGED notSender

SenderInit ==
    /\ sphase = "idle"
    /\ pc_state = "new"
    /\ ws_state = "none"
    /\ connection_established = FALSE
    /\ since_heartbeat = 0
    /\ since_alert = alert_period + 1
    /\ sessions = 0
    /\ sop = SenderStep("init", {})

SenderNext ==
    \/ \E setup \in Setups : Main(setup)
    \/ \E opening \in Openings : OpenSignaling(opening)
    \/ \E kind \in Frames : RecvFrame(kind)
    \/ PeerCloses
    \/ \E fall \in BOOLEAN, send_ok \in BOOLEAN : HeartbeatWake(fall, send_ok)
    \/ RecoverWake
    \/ \E state \in ConnectionStates : on_conn_state(state)
    \/ Exit

\* the steps that the process takes by itself: its timers expire, its
\* calls return
SenderFairness ==
    /\ WF_vars(\E setup \in Setups : Main(setup))
    /\ WF_vars(\E opening \in Openings : OpenSignaling(opening))
    /\ WF_vars(\E fall \in BOOLEAN, send_ok \in BOOLEAN :
                  HeartbeatWake(fall, send_ok))
    /\ WF_vars(RecoverWake)
    /\ WF_vars(Exit)

(***************************************************************************)
(* Initial state and steps of the scheduler; the specifications           *)
(***************************************************************************)
SchedInit ==
    /\ now = 0
    /\ cameras = {}
    /\ agents = <<>>
    /\ tasks = <<>>
    /\ written = {}
    /\ op = "init"

SchedNext ==
    \/ \E c \in SchedCameras : add_camera(c)
    \/ \E a \in AgentIds, p \in AgentCreate : upsert_agent(a, p)
    \/ start_agent_scheduler
    \/ \E f \in 0..(Len(AgentOrder) + 1) : Sweep(f)
    \/ Tick

\* the state of the process after construction
(***************************************************************************)
(* Frame processing (app/rule_engine/engine.py) and the camera fan-out     *)
(***************************************************************************)
\* the registrations made while frames are processed: a stored rule list is
\* not part of the agent document above, it is given with each call
EnginePayloads ==
    {p \in AgentCreate : /\ p.run_mode = "scheduled"
                         /\ p.status \in {"pending", "running"}
                         /\ p.start_at = 1 /\ p.end_at = MaxTime - 1}
\* the longest detection list given to one call
MaxEngineDets == 1
EngineClassLists == UNION {[1..n -> DetClasses] : n \in 0..MaxEngineDets}
\* rt.rules of an agent: a presence rule, a count rule that asks for two, a
\* count rule with a negative threshold, and a rule whose type names the
\* typing alias List
EngineRules ==
    {<<[type |-> "class_presence", target_class |-> "person",
        min_count |-> NoMinCount]>>,
     <<[type |-> "class_count", target_class |-> "person",
        min_count |-> <<2>>]>>,
     <<[type |-> "class_count", target_class |-> "person",
        min_count |-> <<-1>>]>>,
     <<[type |-> "List", target_class |-> "person",
        min_count |-> NoMinCount]>>}
\* the camera frames that the fan-out publishes
MaxFanout == 2

\* the name of the output channel of an agent
AgentChannel(a) == "agent:" \o a

NoEngineCall ==
    [camera |-> "none", returned |-> "none", evaluated |-> {},
     matched |-> {}, evidence |-> 0]

\* the record kept in eout: what the call on camera_id returned ("frame":
\* the frame it was given, "new_frame": an annotated copy, "raised": an
\* exception), the agents whose rules were run, those for which
\* run_rules_for_agent returned matched, and len(rule_detections)
EngineCall(camera_id, returned, evaluated, matched, evidence) ==
    [camera |-> camera_id, returned |-> returned, evaluated |-> evaluated,
     matched |-> matched, evidence |-> evidence]

\* dets = run_detection(rt.model, bgr) on a frame that shows these classes
Detections(classes) == [i \in 1..Len(classes) |-> Detection(classes[i], i)]

\* the for loop over the runtimes from the i-th on (engine.py:217-228)
RECURSIVE DetectFrom(_, _, _, _, _, _, _)
DetectFrom(rts, i, rules_of, detections, kept, evaluated, matched) ==
    IF i > Len(rts)
    THEN [raised |-> FALSE, rule_detections |-> kept,
          evaluated |-> evaluated, matched |-> matched]
    ELSE LET a == rts[i].agent_id
             r == run_rules_for_agent(rules_of[a], detections)
         IN  IF r.raised
             THEN [raised |-> TRUE, rule_detections |-> kept,
                   evaluated |-> evaluated \cup {a}, matched |-> matched]
             ELSE DetectFrom(rts, i + 1, rules_of, detections,
                     IF r.matched /\ r.filtered # <<>>
                     THEN kept \o r.filtered
                     ELSE kept,
                     evaluated \cup {a},
                     IF r.matched THEN matched \cup {a} ELSE matched)

\* what a call of process_frame_for_camera gives: the record for eout and
\* whether it wrote _camera_last_detection_time[camera_id].  due: whether
\* min_interval has passed since the stored time (always so without an
\* entry: the default 0.0 is the epoch); convertible: whether
\* frame.to_ndarray gives a non-empty array
ProcessFrame(docs, cached, camera_id, rules_of, classes, due, convertible) ==
    LET rts == get_running_agents_for_camera(docs, camera_id)
        d == DetectFrom(rts, 1, rules_of, Detections(classes), <<>>, {}, {})
    IN  IF rts = <<>>
        THEN [out |-> EngineCall(camera_id, "frame", {}, {}, 0),
              stamped |-> FALSE]
        ELSE IF camera_id \in cached /\ ~due
        THEN [out |-> EngineCall(camera_id, "frame", {}, {}, 0),
              stamped |-> FALSE]
        ELSE IF ~convertible
        THEN [out |-> EngineCall(camera_id, "frame", {}, {}, 0),
              stamped |-> TRUE]
        ELSE [out |-> EngineCall(camera_id,
                         IF d.raised THEN "raised"
                         ELSE IF d.rule_detections = <<>> THEN "frame"
                         ELSE "new_frame",
                         d.evaluated, d.matched, Len(d.rule_detections)),
              stamped |-> TRUE]

\* a processing step that publishes the frame on the channel of the first
\* configured agent when its rules matched
process_frame_for_camera_Publishes(camera_id, rules_of, classes, due, convertible) ==
    LET r == ProcessFrame(agents, camera_last_detection_time, camera_id,
                          rules_of, classes, due, convertible)
        ch == AgentChannel(AgentOrder[1])
    IN  /\ eout' = r.out
        /\ camera_last_detection_time' =
              IF r.stamped THEN camera_last_detection_time \cup {camera_id}
              ELSE camera_last_detection_time
        /\ IF AgentOrder[1] \in r.out.matched /\ PublishedTotal < MaxPublish
           THEN /\ channels' = channels \cup {ch}
                /\ last_frame' = [last_frame EXCEPT
                                     ![ch] = Frame(ch, published[ch] + 1)]
                /\ published' = [published EXCEPT ![ch] = @ + 1]
                /\ UNCHANGED <<subscribers, queue, qstate, qchan, subAt,
                               delivered, hop>>
           ELSE UNCHANGED hubVars
        /\ UNCHANGED schedVars
        /\ UNCHANGED notEngine

\* engine.py:114-245: the call returns a frame or raises; it reads the store
\* and writes the module's throttle dict, and nothing else
process_frame_for_camera(camera_id, rules_of, classes, due, convertible) ==
    LET r == ProcessFrame(agents, camera_last_detection_time, camera_id,
                          rules_of, classes, due, convertible)
    IN  /\ eout' = r.out
        /\ camera_last_detection_time' =
              IF r.stamped THEN camera_last_detection_time \cup {camera_id}
              ELSE camera_last_detection_time
        /\ UNCHANGED hubVars
        /\ UNCHANGED schedVars
        /\ UNCHANGED notEngine

\* rtsp_extractor.py:108-117: SharedFrameHub.instance().publish(camera_id,
\* frame), for the first MaxFanout frames of the camera
fanout_frame(camera_id) ==
    /\ published[camera_id] < MaxFanout
    /\ publish(camera_id)

EngineInit ==
    /\ camera_last_detection_time = {}
    /\ eout = NoEngineCall

EngineNext ==
    \/ \E c \in SchedCameras : add_camera(c)
    \/ \E a \in AgentIds, p \in EnginePayloads : upsert_agent(a, p)
    \/ \E c \in SchedCameras : fanout_frame(c)
    \/ \E c \in SchedCameras, rules_of \in [AgentIds -> EngineRules],
          classes \in EngineClassLists, due \in BOOLEAN,
          convertible \in BOOLEAN :
          process_frame_for_camera(c, rules_of, classes, due, convertible)

(***************************************************************************)
(* The outgoing track (app/streamer/sender_stream.py, ProxyVideoTrack)     *)
(***************************************************************************)
\* the frames read from the source, and the timestamps they may carry
MaxFrames == 3
MaxPts == 2
NoTrack == <<>>
\* DETECTION_FRAME_SKIP values
FrameSkips == {0, 1}
\* what detector.annotate and the conversions give for a frame: an annotated
\* array, an empty one, or an exception
AnnotateOutcomes == {"annotated", "empty", "error"}

\* a frame that recv() returns made from the annotated array, without the
\* timestamp of the frame it was made from
NewFrame_NoPts(frame) == [pts |-> 0, annotated |-> TRUE]

\* sender_stream.py:124-128: VideoFrame.from_ndarray, then the pts and the
\* time_base of the source frame
NewFrame(frame) == [pts |-> frame.pts, annotated |-> TRUE]

\* sender_stream.py:71-80
ProxyVideoTrack(detector, frame_skip) ==
    /\ track = NoTrack
    /\ track' = [detector |-> detector, frame_skip |-> frame_skip,
                 frame_index |-> 0]
    /\ UNCHANGED <<upstream, emitted>>
    /\ UNCHANGED notTrack

\* sender_stream.py:92-133: one call of recv(); pts is the timestamp of the
\* frame that self.source.recv() returns
recv(pts, outcome) ==
    /\ track # NoTrack
    /\ Len(upstream) < MaxFrames
    /\ LET frame == [pts |-> pts, annotated |-> FALSE]
           idx == track.frame_index
           skipped == track.frame_skip # 0
                         /\ idx % (track.frame_skip + 1) # 0
       IN  /\ upstream' = Append(upstream, pts)
           /\ track' = IF track.detector
                       THEN [track EXCEPT !.frame_index = idx + 1]
                       ELSE track
           /\ emitted' = Append(emitted,
                 IF track.detector /\ ~skipped /\ outcome = "annotated"
                 THEN NewFrame(frame) ELSE frame)
    /\ UNCHANGED notTrack

TrackInit ==
    /\ track = NoTrack
    /\ upstream = <<>>
    /\ emitted = <<>>

TrackNext ==
    \/ \E detector \in BOOLEAN, frame_skip \in FrameSkips :
          ProxyVideoTrack(detector, frame_skip)
    \/ \E pts \in 0..MaxPts, outcome \in AnnotateOutcomes : recv(pts, outcome)

Init ==
    /\ SchedInit /\ HubInit /\ RelayInit /\ RulesInit /\ SenderInit
    /\ EngineInit /\ TrackInit

SpecSched == Init /\ [][SchedNext]_vars

SpecHub == Init /\ [][HubNext]_vars

SpecRelay == Init /\ [][RelayNext]_vars

\* the relay with two connections, for the properties that are checked
\* against every frame a client may send
SpecRelayPair == Init /\ [][RelayNextPair]_vars

\* the relay with three connections and offers as the only frames, for the
\* properties of the stored and the replayed offer
SpecRelayOffers == Init /\ [][RelayNextOffers]_vars

SpecRules == Init /\ [][RulesNext]_vars

SpecSender == Init /\ [][SenderNext]_vars

\* the publishing process with its own steps taken whenever they can be
SpecSenderFair == SpecSender /\ SenderFairness

SpecEngine == Init /\ [][EngineNext]_vars

SpecTrack == Init /\ [][TrackNext]_vars

(***************************************************************************)
(* Claims about the scheduler (checked under SpecSched)                    *)
(***************************************************************************)
\* a step that is a completed sweep: the try block ran to its end
CompletedSweep == op' = "sweep_ok"

\* the number of AgentRuntimes that the runtime builder returns for agent a
\* over the store contents docs
RuntimeCount(docs, a) ==
    LET rts == build_agent_runtimes_for_camera(docs, docs[a].camera_id)
    IN  Cardinality({i \in 1..Len(rts) : rts[i].agent_id = a})

\* the per-agent asyncio tasks that exist for agent a
AgentTaskCount(ts, a) == Cardinality({i \in 1..Len(ts) : ts[i] = a})

\* C1: a completed sweep leaves every scheduled-mode agent that it read (stored
\* status not terminated) with status pending if now < start_at, running if
\* start_at <= now < end_at, terminated if now >= end_at (the cases taken in
\* this order, which matters only when end_at < start_at); so such an agent
\* is running after the sweep iff start_at <= now < end_at.
C1_SweepSetsWindowStatus ==
    [][CompletedSweep =>
         \A a \in DOMAIN agents :
             (agents[a].status # "terminated"
              /\ agents[a].run_mode = "scheduled") =>
                 LET s == agents[a].start_at
                     e == agents[a].end_at
                     st == agents'[a].status
                 IN  /\ now < s => st = "pending"
                     /\ (s <= now /\ now < e) => st = "running"
                     /\ (now >= e /\ now >= s) => st = "terminated"
                     /\ st = "running" <=> (s <= now /\ now < e)]_vars

\* C1 witness: a completed sweep has just moved a scheduled agent from pending
\* to running strictly inside its window while another scheduled agent, read
\* by the same sweep before its start, is pending
C1_Witness ==
    /\ op = "sweep_ok"
    /\ \E a, b \in DOMAIN agents :
           /\ a # b
           /\ agents[a].run_mode = "scheduled"
           /\ agents[a].start_at < now /\ now < agents[a].end_at
           /\ [agent_id |-> a, from |-> "pending", to |-> "running"]
                  \in written
           /\ agents[b].run_mode = "scheduled"
           /\ now < agents[b].start_at
           /\ [agent_id |-> b, from |-> "running", to |-> "pending"]
                  \in written

\* C2 (as claimed): a completed sweep leaves every continuous agent that it
\* read with status running, wherever now lies relative to start_at and end_at
C2_ContinuousStaysRunning ==
    [][CompletedSweep =>
         \A a \in DOMAIN agents :
             (agents[a].status # "terminated"
              /\ agents[a].run_mode = "continuous") =>
                 agents'[a].status = "running"]_vars

Min(a, b) == IF a < b THEN a ELSE b

\* the frames offered to queue q so far, while it has stayed subscribed: the
\* seed frame (if the channel had one) and every publish since
OfferedFrom(q) == IF subAt[q] = 0 THEN 1 ELSE subAt[q]
OfferedCount(q) == published[qchan[q]] - OfferedFrom(q) + 1

\* the last n frames published on channel c, in publish order
LastPublished(c, n) ==
    [i \in 1..n |-> Frame(c, published[c] - n + i)]

\* a step that is a publish call on channel c
PublishStep(c) == hop'.name = "publish" /\ published'[c] = published[c] + 1

\* the subscribers of a list that are not shut down, in list order
RECURSIVE LiveOnly(_)
LiveOnly(list) ==
    IF list = <<>> THEN <<>>
    ELSE IF qstate[Head(list)] = "shutdown" THEN LiveOnly(Tail(list))
    ELSE <<Head(list)>> \o LiveOnly(Tail(list))

\* C3: no subscriber queue ever holds more than max_sub_queue frames; and a
\* subscribed queue from which nothing was taken holds exactly the latest
\* min(offered, max_sub_queue) frames of its channel in publish order, so
\* after N > B publishes a drain yields the last B published frames
C3_QueueBoundedDropOldest ==
    /\ \A q \in QueueIds : Len(queue[q]) <= max_sub_queue
    /\ \A q \in QueueIds :
           (/\ qstate[q] # "unused"
            /\ InList(subscribers[qchan[q]], q)
            /\ delivered[q] = NoFrame) =>
               queue[q] = LastPublished(qchan[q],
                                        Min(OfferedCount(q), max_sub_queue))

\* C3 witness: more than max_sub_queue frames were published to a channel
\* after a queue subscribed to it, nothing was taken, and the queue holds the
\* last max_sub_queue frames
C3_Witness ==
    \E q \in QueueIds :
        /\ qstate[q] = "open"
        /\ InList(subscribers[qchan[q]], q)
        /\ delivered[q] = NoFrame
        /\ published[qchan[q]] - subAt[q] > max_sub_queue
        /\ queue[q] = LastPublished(qchan[q], max_sub_queue)

\* C8: a publish call on a channel always goes through its whole subscriber
\* list: exactly the subscribers whose put raises (the shut down queues) are
\* removed from the list, in the same call every other subscriber gets the
\* frame as its newest entry, and no other channel's list changes; and
\* publish is never blocked by the state of any queue
C8_PublishIsolatesDeadQueues ==
    /\ [][\A c \in ChannelIds :
            PublishStep(c) =>
                /\ subscribers'[c] = LiveOnly(subscribers[c])
                /\ hop'.dead = {q \in QueueIds :
                                    /\ InList(subscribers[c], q)
                                    /\ qstate[q] = "shutdown"}
                /\ last_frame'[c] = Frame(c, published'[c])
                /\ \A q \in QueueIds :
                       (InList(subscribers[c], q) /\ qstate[q] # "shutdown")
                           => /\ queue'[q] # <<>>
                              /\ queue'[q][Len(queue'[q])] = last_frame'[c]
                /\ \A d \in ChannelIds \ {c} :
                       subscribers'[d] = subscribers[d]]_vars
    /\ [](PublishedTotal < MaxPublish =>
              \A c \in ChannelIds : ENABLED publish(c))

\* C8 witness: a publish has just removed a shut down queue from a channel
\* while another subscriber of the channel, listed after it and full before
\* the call, received the frame
C8_Witness ==
    /\ hop.name = "publish"
    /\ \E c \in ChannelIds, dq, q \in QueueIds :
           /\ dq \in hop.dead /\ qchan[dq] = c
           /\ ~InList(subscribers[c], dq)
           /\ qchan[q] = c /\ qstate[q] = "open"
           /\ InList(subscribers[c], q)
           /\ dq = QueueOrder[1] /\ q = QueueOrder[2]
           /\ Len(queue[q]) = max_sub_queue
           /\ queue[q][max_sub_queue] = last_frame[c]
           /\ queue[q][1][2] > 1

\* the value that get_latest(c) returns
GetLatestResult(c) == last_frame[c]

\* C9: get_latest returns None before any publish on the channel and
\* otherwise the frame of the most recent publish on it; the value changes
\* only in a step that is a publish on the same channel
C9_LatestIsLastPublished ==
    /\ [](\A c \in ChannelIds :
              GetLatestResult(c) =
                  IF published[c] = 0 THEN NoFrame
                  ELSE Frame(c, published[c]))
    /\ [][\A c \in ChannelIds :
              last_frame'[c] # last_frame[c] => PublishStep(c)]_vars

\* C9 witness: after two publishes on a channel a queue of it was subscribed,
\* read and unsubscribed, and the latest frame is still the second one
C9_Witness ==
    /\ hop = NoPublish
    /\ \E c \in ChannelIds, q \in QueueIds :
           /\ published[c] = 2
           /\ qchan[q] = c /\ delivered[q] # NoFrame
           /\ ~InList(subscribers[c], q)
           /\ GetLatestResult(c) = Frame(c, 2)

\* the frames that the consumer of queue q took last and will take next, in
\* this order
TakenThenQueued(q) ==
    (IF delivered[q] = NoFrame THEN <<>> ELSE <<delivered[q]>>) \o queue[q]

\* C10: for every queue, the frame taken last followed by the frames still
\* queued are frames of the queue's own channel with strictly increasing
\* publish indices, none older than the seed frame and none not yet
\* published; so each frame a consumer takes is newer than the one before:
\* the frames taken form a subsequence of the published ones, without
\* repetition or reordering
C10_DeliveredInPublishOrder ==
    /\ [](\A q \in QueueIds :
              LET fs == TakenThenQueued(q)
              IN  /\ \A i \in 1..Len(fs) :
                         /\ fs[i][1] = qchan[q]
                         /\ fs[i][2] >= OfferedFrom(q)
                         /\ fs[i][2] <= published[qchan[q]]
                  /\ \A i, j \in 1..Len(fs) : i < j => fs[i][2] < fs[j][2])
    /\ [][\A q \in QueueIds :
              delivered'[q] # delivered[q] =>
                  /\ delivered'[q] = Head(queue[q])
                  /\ delivered[q] # NoFrame =>
                         delivered'[q][2] > delivered[q][2]]_vars

\* C10 witness: a consumer has taken a frame, frames were dropped behind it
\* while the queue was full, and the next frame it will take is not the
\* successor of the one taken
C10_Witness ==
    \E q \in QueueIds :
        /\ delivered[q] # NoFrame
        /\ Len(queue[q]) = max_sub_queue
        /\ queue[q][1][2] > delivered[q][2] + 1

\* the queues registered in some channel
Registered == {q \in QueueIds : \E c \in ChannelIds : InList(subscribers[c], q)}

\* C11: subscribe(channel) registers one new bounded queue at the end of
\* the channel's subscriber list; the returned queue holds exactly the
\* channel's latest frame (length 1) if there is one and is empty
\* otherwise; from then on every publish on that channel puts its frame at
\* the tail of the queue, for as long as the queue is registered and
\* accepts puts.
C11_SubscribeSeedsAndReceives ==
    /\ [][\A c \in ChannelIds : \A q \in QueueIds :
            subscribe(c, q) =>
               /\ q \notin Registered
               /\ subscribers'[c] = Append(subscribers[c], q)
               /\ \A d \in ChannelIds \ {c} : subscribers'[d] = subscribers[d]
               /\ queue'[q] = IF last_frame[c] = NoFrame THEN <<>>
                              ELSE <<last_frame[c]>>
               /\ Len(queue'[q]) <= max_sub_queue]_vars
    /\ [][\A c \in ChannelIds : \A q \in QueueIds :
            (PublishStep(c) /\ InList(subscribers[c], q)
                            /\ qstate[q] = "open") =>
               /\ InList(subscribers'[c], q)
               /\ queue'[q] # <<>>
               /\ queue'[q][Len(queue'[q])] = Frame(c, published'[c])]_vars

\* a queue seeded at subscribe time has since received a later publish
C11_Witness ==
    \E q \in QueueIds :
       /\ qstate[q] = "open"
       /\ subAt[q] >= 1
       /\ delivered[q] = NoFrame
       /\ InList(subscribers[qchan[q]], q)
       /\ queue[q] = <<Frame(qchan[q], subAt[q]),
                       Frame(qchan[q], subAt[q] + 1)>>

\* C12: unsubscribe(channel, queue) removes exactly that queue from the
\* channel's subscriber list when it is registered there, and later
\* publishes no longer put into a queue that is registered nowhere; when
\* the queue is not registered in that channel the call raises nothing and
\* changes no subscriber list; a second call changes nothing more.
C12_UnsubscribeRemovesOnce ==
    /\ [][\A c \in ChannelIds : \A q \in QueueIds :
            unsubscribe(c, q) =>
               /\ ~InList(subscribers'[c], q)
               /\ \A p \in QueueIds \ {q} :
                     InList(subscribers'[c], p) = InList(subscribers[c], p)
               /\ Len(subscribers'[c]) =
                     Len(subscribers[c])
                        - (IF InList(subscribers[c], q) THEN 1 ELSE 0)
               /\ \A d \in ChannelIds \ {c} : subscribers'[d] = subscribers[d]
               /\ ~InList(subscribers[c], q) => subscribers' = subscribers
               /\ queue' = queue
               /\ ListRemove(subscribers'[c], q) = subscribers'[c]]_vars
    /\ [](\A c \in ChannelIds : \A q \in QueueIds :
            qstate[q] # "unused" => ENABLED unsubscribe(c, q))
    /\ [][\A c \in ChannelIds : \A q \in QueueIds :
            (PublishStep(c) /\ q \notin Registered) =>
               queue'[q] = queue[q]]_vars

\* a queue subscribed before the first publish of its channel and removed
\* again has missed the publishes that followed
C12_Witness ==
    \E q \in QueueIds :
       /\ qstate[q] = "open"
       /\ q \notin Registered
       /\ subAt[q] = 0
       /\ published[qchan[q]] >= 1
       /\ queue[q] = <<>>
       /\ delivered[q] = NoFrame

(***************************************************************************)
(* Claims about the rule engine (checked under SpecRules)                  *)
(***************************************************************************)
\* the rules of a list whose type is one of the recognized kinds
RECURSIVE Recognized(_)
Recognized(rules) ==
    IF rules = <<>> THEN <<>>
    ELSE IF Head(rules).type \in {"class_presence", "class_count"}
    THEN <<Head(rules)>> \o Recognized(Tail(rules))
    ELSE Recognized(Tail(rules))

\* ev is exactly the detections of class target, in detection order
IsEvidence(ev, detections, target) ==
    /\ \A i \in 1..Len(ev) :
          /\ ev[i].box \in 1..Len(detections)
          /\ ev[i] = detections[ev[i].box]
          /\ ev[i].class_name = target
    /\ \A i \in 1..(Len(ev) - 1) : ev[i].box < ev[i + 1].box
    /\ \A j \in 1..Len(detections) :
          detections[j].class_name = target
             => \E i \in 1..Len(ev) : ev[i].box = j

\* the number of detections of class target
CountOf(detections, target) ==
    Cardinality({j \in 1..Len(detections) :
                    detections[j].class_name = target})

\* the detection list of the documented example
ExampleDets ==
    [i \in 1..Len(ExampleClasses) |-> Detection(ExampleClasses[i], i)]

\* C13: run_rules_for_agent never fails because of a rule's type: a rule
\* whose type is not class_presence or class_count, also one whose type
\* names another attribute of the rules module, is skipped, and the result
\* is that of the rule list without the unrecognized rules.
C13_UnknownTypeSkipped ==
    (rphase = "done" /\ rcall.fn = "run_rules_for_agent") =>
       /\ ~rcall.raised
       /\ LET r == run_rules_for_agent(Recognized(rcall.rules), dets)
          IN  rcall.matched = r.matched /\ rcall.filtered = r.filtered

\* C14: for a count rule, matched is true iff the number of detections of
\* the target class is at least max(min_count, 1), an absent min_count
\* counting as 1; so a count rule never matches on zero such detections.
C14_CountThreshold ==
    (rphase = "done" /\ rcall.fn = "class_count") =>
       LET rule == rcall.rules[1]
           n == CountOf(dets, rule.target_class)
           m == IF rule.min_count = NoMinCount THEN 1 ELSE rule.min_count[1]
           threshold == IF m > 1 THEN m ELSE 1
       IN  /\ rcall.matched = (n >= threshold)
           /\ n = 0 => ~rcall.matched

\* C15: for a count rule the evidence is always the full list of the
\* detections of the target class, in detection order, whether or not the
\* threshold is met; on [person, car, person, dog] with target person,
\* min_count 2 gives (true, [person, person]) and min_count 3 gives
\* (false, [person, person]).
C15_CountEvidenceUnconditional ==
    (rphase = "done" /\ rcall.fn = "class_count") =>
       LET rule == rcall.rules[1]
       IN  /\ ~rcall.raised
           /\ IsEvidence(rcall.filtered, dets, rule.target_class)
           /\ (dets = ExampleDets /\ rule.target_class = "person") =>
                 /\ rcall.filtered = <<ExampleDets[1], ExampleDets[3]>>
                 /\ rule.min_count = <<2>> => rcall.matched
                 /\ rule.min_count = <<3>> => ~rcall.matched

\* the example with min_count 3: not matched, both persons returned
C15_Witness ==
    /\ rphase = "done"
    /\ rcall.fn = "class_count"
    /\ dets = ExampleDets
    /\ rcall.rules[1].target_class = "person"
    /\ rcall.rules[1].min_count = <<3>>
    /\ ~rcall.matched
    /\ Len(rcall.filtered) = 2

\* C16: for a presence rule the evidence is exactly the detections of the
\* target class, in their original order, matched is true iff the evidence
\* is non-empty, and the call leaves the detection list as it was.
C16_PresenceEvidence ==
    /\ [](rphase = "done" /\ rcall.fn = "class_presence" =>
            /\ ~rcall.raised
            /\ IsEvidence(rcall.filtered, dets, rcall.rules[1].target_class)
            /\ rcall.matched = (rcall.filtered # <<>>))
    /\ [][rcall'.fn = "class_presence" => dets' = dets]_vars

\* the documented example: presence of person on [person, car, person, dog]
C16_Witness ==
    /\ rphase = "done"
    /\ rcall.fn = "class_presence"
    /\ dets = ExampleDets
    /\ rcall.rules[1].target_class = "person"
    /\ rcall.matched
    /\ rcall.filtered = <<ExampleDets[1], ExampleDets[3]>>

\* the evidence of the rules of a list that matched, in rule order
RECURSIVE MatchedEvidence(_, _)
MatchedEvidence(rules, detections) ==
    IF rules = <<>> THEN <<>>
    ELSE LET r == CallHandler(Head(rules), detections)
         IN  (IF r.matched THEN r.filtered ELSE <<>>)
                \o MatchedEvidence(Tail(rules), detections)

\* C17: run_rules_for_agent returns any_matched = true iff at least one
\* recognized rule matched, and kept is the concatenation, in rule
\* declaration order, of the evidence of exactly the rules that matched,
\* each in detection order and without de-duplication.
C17_KeptIsConcatenation ==
    (rphase = "done" /\ rcall.fn = "run_rules_for_agent") =>
       LET rec == Recognized(rcall.rules)
       IN  /\ ~rcall.raised
           /\ rcall.matched =
                 (\E i \in 1..Len(rec) : CallHandler(rec[i], dets).matched)
           /\ rcall.filtered = MatchedEvidence(rec, dets)

(***************************************************************************)
(* Claims about the signaling relay (checked under SpecRelay)              *)
(***************************************************************************)
\* the client registered under `id` has its socket open
Connected(id) == InClients(clients, id) /\ alive[ConnOf(clients, id)]

\* the handler of connection k takes an offer from a publisher-role client
PublisherOffer(k, msg) ==
    ReceiveMsg(k, msg) /\ msg.type = "offer" /\ StartsWithCamera(cid[k])

\* C6: when a publisher-role client sends an offer, the relay sets that
\* client's last_offer to the message's sdp and delivers the message
\* unchanged to the client named by `to` if and only if that client is
\* currently connected; when `to` is missing or names a client that is not
\* connected, the offer is delivered to no client at all.
C6_OfferToTargetOrDropped ==
    [][\A k \in ConnIds : \A msg \in Messages(cid[k]) :
          PublisherOffer(k, msg) =>
             /\ last_offer'[k] = msg.sdp
             /\ IF HasTarget(msg) /\ Connected(msg.to)
                THEN rop'.out = {<<ConnOf(clients, msg.to), msg>>}
                ELSE rop'.out = {}]_vars

\* the publishers mapped to viewer id `id` that have sent an offer carrying
\* an sdp and are still connected
OfferingPublishers(id) ==
    {p \in ConnIds : /\ cstate[p] \in {"open", "bcast"}
                     /\ alive[p]
                     /\ cid[p] = CameraPeerId(id)
                     /\ Truthy(last_offer[p])}

\* C7: if a publisher has sent an offer and is still connected, a viewer
\* that connects afterwards with the id mapped to that publisher is sent,
\* on connect and with no further message from the publisher, an offer
\* carrying the publisher's stored sdp, labeled from the publisher and
\* addressed to the viewer; if the publisher is not registered or has no
\* stored offer, nothing is sent on connect.
C7_LateViewerGetsStoredOffer ==
    [][\A k \in ConnIds : \A id \in ClientIds :
          (Connect(k, id) /\ ~StartsWithCamera(id) /\ HasColon(id)) =>
             /\ OfferingPublishers(id) # {} =>
                   \E p \in OfferingPublishers(id) :
                      rop'.out = {<<k, Msg("offer", CameraPeerId(id), id,
                                           last_offer[p], None)>>}
             /\ (\/ ~InClients(clients, CameraPeerId(id))
                 \/ ~Truthy(last_offer[ConnOf(clients, CameraPeerId(id))]))
                   => rop'.out = {}]_vars

\* the message types that websocket_endpoint has a branch for
HandledTypes == {"offer", "answer", "ice", "ice-complete", "ping"}

\* what a handler step leaves alone when it only reads the registry
RegistryUntouched ==
    /\ clients' = clients
    /\ cstate' = cstate
    /\ cid' = cid
    /\ last_offer' = last_offer
    /\ last_answer' = last_answer

\* the deliveries of a message sent to the registry entry under its `to`
ToRegistered(msg) ==
    IF HasTarget(msg) /\ Connected(msg.to)
    THEN {<<ConnOf(clients, msg.to), msg>>}
    ELSE {}

\* the handler of connection k took the step that led to the next state
StepOf(k) == rop'.name = "receive" /\ rop'.k = k

\* C18 as stated: a message whose type is none of offer, answer, ice, ping
\* (for example ice-complete or fall_alert) is delivered to no client,
\* changes no entry of the client registry, and leaves the sender's
\* connection open and registered.
C18_UnknownTypeIgnored ==
    [][\A k \in ConnIds : \A msg \in Messages(cid[k]) :
          (ReceiveMsg(k, msg)
              /\ msg.type \notin {"offer", "answer", "ice", "ping"}) =>
             /\ rop'.out = {}
             /\ RegistryUntouched
             /\ cstate'[k] = "open"]_vars

\* C18: a message whose type is none of offer, answer, ice, ice-complete,
\* ping (for example fall_alert) is delivered to no client, changes no
\* entry of the client registry and leaves the sender's handler at its
\* receive loop; an ice-complete message is sent unchanged to the client
\* registered under its `to`, if there is one, and changes nothing either.
C18_UnhandledTypeIgnored ==
    [][\A k \in ConnIds : StepOf(k) =>
        \A ty \in OtherTypes \ {"ping"}, t \in Targets :
          LET msg == Msg(ty, cid[k], t, None, None)
          IN  ReceiveMsg(k, msg) =>
             /\ msg.type \notin HandledTypes =>
                   /\ rop'.out = {}
                   /\ RegistryUntouched
                   /\ cstate'[k] = "open"
             /\ msg.type = "ice-complete" =>
                   /\ rop'.out = ToRegistered(msg)
                   /\ RegistryUntouched
                   /\ cstate'[k] = "open"]_vars

\* an ice-complete message has reached the client it names
C18_Witness ==
    /\ rop.name = "receive"
    /\ \E d \in rop.out : d[2].type = "ice-complete" /\ d[2].to = cid[d[1]]

\* the open connections of clients with id `id` whose socket is open
ConnectionsOf(id) ==
    {p \in ConnIds : cstate[p] \in {"open", "bcast"} /\ alive[p] /\ cid[p] = id}

\* the step delivered msg, unchanged, to a connected client named by its `to`
DeliveredToTarget(msg) ==
    \E p \in ConnectionsOf(msg.to) : rop'.out = {<<p, msg>>}

\* C19: an offer sent by a viewer-role client and an answer sent by a
\* publisher-role client are delivered to no client and set no last_offer;
\* an answer sent by a viewer is delivered unchanged to the client named
\* by `to` when that client is connected; only publisher entries ever hold
\* a non-null last_offer.
C19_RoleEnforcement ==
    /\ [][\A k \in ConnIds : StepOf(k) =>
           \A t \in Targets, s \in Sdps :
              LET offer == Msg("offer", cid[k], t, s, None)
                  answer == Msg("answer", cid[k], t, s, None)
              IN  /\ (ReceiveMsg(k, offer) /\ ~StartsWithCamera(cid[k])) =>
                        rop'.out = {} /\ last_offer' = last_offer
                  /\ (ReceiveMsg(k, answer) /\ StartsWithCamera(cid[k])) =>
                        rop'.out = {} /\ last_offer' = last_offer
                  /\ (ReceiveMsg(k, answer) /\ ~StartsWithCamera(cid[k])) =>
                        /\ last_offer' = last_offer
                        /\ (HasTarget(answer) /\ ConnectionsOf(t) # {})
                              => DeliveredToTarget(answer)]_vars
    /\ [](\A k \in ConnIds :
            last_offer[k] # None => StartsWithCamera(cid[k]))

\* C20: an ice message from a client of either role is delivered unchanged
\* to the client named by `to` whenever that client is connected, whatever
\* its candidate payload, the empty one included.
C20_IceForwarded ==
    [][\A k \in ConnIds : StepOf(k) =>
          \A t \in Targets, c \in Candidates :
             LET ice == Msg("ice", cid[k], t, None, c)
             IN  (ReceiveMsg(k, ice) /\ HasTarget(ice)
                     /\ ConnectionsOf(t) # {})
                    => DeliveredToTarget(ice)]_vars

\* C21: a ping from any client is answered with exactly one pong sent to
\* the sender; nothing is sent to any other client, the one named by the
\* ping's `to` included, and no registry state changes.
C21_PingAnsweredWithPong ==
    [][\A k \in ConnIds : StepOf(k) =>
          \A t \in Targets :
             LET msg == Msg("ping", cid[k], t, None, None)
             IN  ReceiveMsg(k, msg) =>
                    /\ rop'.out = {<<k, pong_msg>>}
                    /\ RegistryUntouched
                    /\ alive' = alive]_vars

\* a pong has been sent to a client while another client is registered
\* with its socket open
C21_Witness ==
    /\ rop.name = "receive"
    /\ rop.out = {<<rop.k, pong_msg>>}
    /\ \E id \in Targets \ {NoTarget} :
          Connected(id) /\ ConnOf(clients, id) # rop.k

\* the handler of connection k took the broadcast step that led to the
\* next state
BroadcastStepOf(k) == rop'.name = "broadcast" /\ rop'.k = k

\* C22: an offer, answer or ice message addressed to an id that is not
\* connected when it is processed raises no error and leaves the sender's
\* connection open and registered, and it is not delivered afterwards to a
\* client that connects with that id; what a connecting client is sent is
\* only the replay of the stored last_offer.
C22_DroppedNotQueued ==
    [][\A k \in ConnIds :
          /\ StepOf(k) =>
                \A ty \in {"offer", "answer", "ice"},
                   t \in Targets \ {NoTarget}, s \in Sdps, c \in Candidates :
                   LET msg == Msg(ty, cid[k], t,
                                  IF ty = "ice" THEN None ELSE s,
                                  IF ty = "ice" THEN c ELSE None)
                   IN  (ReceiveMsg(k, msg) /\ ConnectionsOf(t) = {}) =>
                          /\ cstate'[k] # "ended"
                          /\ clients' = clients
                          /\ \A d \in rop'.out : cid'[d[1]] # t
          /\ (BroadcastStepOf(k) /\ HasTarget(iter[k].msg)) =>
                /\ cstate'[k] # "ended"
                /\ \A d \in rop'.out : cid'[d[1]] # iter[k].msg.to
          /\ \A id \in ClientIds :
                Connect(k, id) =>
                   rop'.out \subseteq
                      IF HasColon(id)
                      THEN {<<k, Msg("offer", CameraPeerId(id), id, so, None)>> :
                               so \in {last_offer[p] : p \in ConnIds}}
                      ELSE {}]_vars

\* the connections under client id `id` whose handler has not ended
HandlersOf(id) ==
    {p \in ConnIds : cstate[p] \in {"open", "bcast"} /\ cid[p] = id}

\* C23: when a client's connection ends, by a disconnect or a receive
\* error, the registry has no entry under its id any more and its stored
\* last_offer is gone; a message addressed to an id that has no connection
\* left finds no target and is delivered to no client; the registry never
\* holds an entry for an id all of whose connections have ended.
C23_EndedClientRemoved ==
    /\ [][\A k \in ConnIds :
            /\ (cstate[k] # "ended" /\ cstate'[k] = "ended") =>
                  /\ ~InClients(clients', cid[k])
                  /\ last_offer'[k] = None
            /\ StepOf(k) =>
                  \A ty \in {"offer", "answer", "ice"},
                     t \in Targets \ {NoTarget}, s \in Sdps,
                     c \in Candidates :
                     LET msg == Msg(ty, cid[k], t,
                                    IF ty = "ice" THEN None ELSE s,
                                    IF ty = "ice" THEN c ELSE None)
                     IN  (ReceiveMsg(k, msg) /\ HandlersOf(t) = {}) =>
                            /\ ~InClients(clients, t)
                            /\ rop'.out = {}]_vars
    /\ [](\A i \in 1..Len(clients) :
            clients[i] # Hole => HandlersOf(clients[i].id) # {})

(***************************************************************************)
(* Further claims about the scheduler (checked under SpecSched)            *)
(***************************************************************************)
\* the scheduler loop is running
LoopRunning == \E i \in 1..Len(tasks) : tasks[i] = "scheduler"

\* the status decision of the sweep for the stored agent a at time t
Computed(docs, a, t) == NewStatus(t, docs[a].start_at, docs[a].end_at)

\* C24: when the store raises during a sweep, the exception is caught in
\* that iteration: the loop keeps running, a failed read changes nothing,
\* the next sweep can be performed, and a sweep that completes after a
\* failed one leaves every agent it read with the computed status.
C24_StoreFailureCaught ==
    /\ [][\A f \in 0..(Len(AgentOrder) + 1) :
            (Sweep(f) /\ op' = "sweep_err") =>
               /\ tasks' = tasks
               /\ f = 0 => agents' = agents]_vars
    /\ [](op = "sweep_err" =>
            /\ LoopRunning
            /\ ENABLED Sweep(Len(AgentOrder) + 1))
    /\ [][(op = "sweep_err" /\ CompletedSweep) =>
            \A a \in DOMAIN agents :
               agents[a].status # "terminated" =>
                  agents'[a].status = Computed(agents, a, now)]_vars

\* a sweep has failed and left an agent with a status that the window and
\* the clock contradict, the loop still running
C24_Witness ==
    /\ op = "sweep_err"
    /\ LoopRunning
    /\ \E a \in DOMAIN agents :
          /\ agents[a].status # "terminated"
          /\ agents[a].status # Computed(agents, a, now)

\* the status function that the claims refer to: running for a continuous
\* agent, else pending before start_at, running inside the window and
\* terminated from end_at on
StatusFunction(doc, t) ==
    IF doc.run_mode = "continuous" THEN "running"
    ELSE NewStatus(t, doc.start_at, doc.end_at)

\* C28: a completed sweep leaves every stored agent with the status that
\* the status function gives for the current time, whatever status was
\* stored before, a terminated or running one written at registration
\* included.
C28_SweepMakesStatusConsistent ==
    [][CompletedSweep =>
          \A a \in DOMAIN agents :
             agents'[a].status = StatusFunction(agents[a], now)]_vars

\* C29: the stored status of an existing agent record is modified only by
\* the scheduler sweep; no other operation, a repeated upsert of the same
\* agent_id included, changes it.
C29_StatusWrittenOnlyBySweep ==
    [][\A a \in DOMAIN agents :
          agents'[a].status # agents[a].status =>
             op' \in {"sweep_ok", "sweep_err"}]_vars

\* the step that led to the next state is one iteration of the sweep loop
SweepStep == op' \in {"sweep_ok", "sweep_err"}

\* C30: a sweep issues a status write for an agent only when the computed
\* status differs from the stored one, and none when they are equal; a
\* sweep changes no field of an agent record other than status and adds
\* or removes no record.
C30_WriteOnlyOnChange ==
    [][SweepStep =>
          /\ DOMAIN agents' = DOMAIN agents
          /\ \A w \in written' :
                /\ w.agent_id \in DOMAIN agents
                /\ w.from = agents[w.agent_id].status
                /\ w.to = Computed(agents, w.agent_id, now)
                /\ w.to # w.from
          /\ \A a \in DOMAIN agents :
                /\ agents'[a] =
                      [agents[a] EXCEPT !.status = agents'[a].status]
                /\ agents'[a].status # agents[a].status =>
                      \E w \in written' : w.agent_id = a
                /\ Computed(agents, a, now) = agents[a].status =>
                      /\ \A w \in written' : w.agent_id # a
                      /\ agents'[a] = agents[a]]_vars

\* a completed sweep has written the status of one agent and has issued no
\* write for another agent it read, whose status was already the computed
\* one
C30_Witness ==
    /\ op = "sweep_ok"
    /\ \E a, b \in DOMAIN agents :
          /\ a # b
          /\ \E w \in written : w.agent_id = a
          /\ \A w \in written : w.agent_id # b
          /\ agents[b].status # "terminated"
          /\ agents[b].status = Computed(agents, b, now)

(***************************************************************************)
(* Claims about the publishing process (checked under SpecSenderFair)      *)
(***************************************************************************)
\* run() is over, by a return or by an exception
SessionOver == sphase \in {"returned", "raised"}

\* C25: the driver runs sessions for ever: the process keeps running, and
\* whenever a session has ended a new session is started.
C25_DriverRunsForever ==
    /\ [](sphase # "exited")
    /\ \A n \in 0..1 : (SessionOver /\ sessions = n) ~> (sessions > n)

\* C26: when the transport's connection state becomes terminal during a
\* session, the signaling socket is closed, and the session ends: run()
\* returns with the peer connection closed, whatever the signaling peer
\* does.
C26_TerminalTransportEndsSession ==
    /\ [][(sphase \in InSession /\ pc_state \notin Terminal
             /\ pc_state' \in Terminal) => ws_state' # "open"]_vars
    /\ (sphase \in InSession /\ pc_state \in Terminal)
          ~> (sphase \in {"returned", "exited"} /\ pc_state = "closed")

\* the answer has been applied, the session holds its signaling socket
\* open and the transport is not in a terminal state
Streaming ==
    /\ connection_established
    /\ sphase \in InSession
    /\ ws_state = "open"
    /\ pc_state \notin Terminal

\* C27: once the offer/answer exchange is complete, and for as long as the
\* signaling socket is open and the transport is not terminal, the
\* publisher keeps sending pings on the socket: from every such state a
\* ping is sent later unless the socket closes or the transport ends.
C27_PingsWhileSocketOpen ==
    Streaming ~> ("ping" \in sop.sent \/ ~Streaming)

(***************************************************************************)
(* Claims about the runtimes and the processing of a frame                 *)
(***************************************************************************)
\* C31: get_running_agents_for_camera(camera_id) returns exactly one
\* AgentRuntime for each stored agent of that camera whose status is
\* running and whose model_ids is non-empty, and none for any other agent:
\* none for a pending or terminated one, none for an agent of another
\* camera, none for one without model_ids, which does not keep the
\* runtimes of the others from being built.
C31_RuntimesOfRunningAgents ==
    \A c \in CameraIds :
       LET rts == get_running_agents_for_camera(agents, c)
       IN  /\ \A i \in 1..Len(rts) :
                 /\ rts[i].agent_id \in DOMAIN agents
                 /\ rts[i].camera_id = c
                 /\ rts[i].model = agents[rts[i].agent_id].model_ids[1]
           /\ \A a \in DOMAIN agents :
                 Cardinality({i \in 1..Len(rts) : rts[i].agent_id = a}) =
                    IF /\ agents[a].camera_id = c
                       /\ agents[a].status = "running"
                       /\ agents[a].model_ids # <<>>
                    THEN 1 ELSE 0

\* the first agent that find returns is running without model_ids, the
\* second is running with a model on the same camera and gets the only
\* runtime
C31_Witness ==
    /\ DOMAIN agents = AgentIds
    /\ agents[AgentOrder[1]].status = "running"
    /\ agents[AgentOrder[1]].model_ids = <<>>
    /\ agents[AgentOrder[2]].status = "running"
    /\ agents[AgentOrder[2]].camera_id = agents[AgentOrder[1]].camera_id
    /\ LET rts == get_running_agents_for_camera(
                      agents, agents[AgentOrder[1]].camera_id)
       IN  Len(rts) = 1 /\ rts[1].agent_id = AgentOrder[2]

(***************************************************************************)
(* Claims about frame processing (checked under SpecEngine)                *)
(***************************************************************************)
\* a step that is a call of process_frame_for_camera on camera c
EngineStepOf(c) == eout' # eout /\ eout'.camera = c

\* the agents of camera c for which the runtime builder returns a runtime
RunningOn(c) ==
    {a \in DOMAIN agents : /\ agents[a].camera_id = c
                           /\ agents[a].status = "running"
                           /\ agents[a].model_ids # <<>>}

FreshUpstream ==
    {i \in 1..Len(upstream) : i = 1 \/ upstream[i] # upstream[i - 1]}

C34_SendFailureContained ==
    [][\A k \in ConnIds : StepOf(k) =>
          \A msg \in Messages(cid[k]) :
             (ReceiveMsg(k, msg) /\ SendFails(k, msg)) =>
                /\ rop'.out = {}
                /\ cstate'[k] = "open" /\ alive'[k]
                /\ clients' = clients
                /\ InClients(clients, cid[k]) => InClients(clients', cid'[k])
                /\ \A j \in ConnIds \ {k} :
                      /\ cstate'[j] = cstate[j]
                      /\ cid'[j] = cid[j]
                      /\ alive'[j] = alive[j]
                      /\ last_offer'[j] = last_offer[j]
                      /\ last_answer'[j] = last_answer[j]]_vars

\* a publisher has sent an offer to a registered viewer whose socket is
\* closed: nothing was delivered and the publisher is at its receive loop
C34_Witness ==
    /\ rop.name = "receive"
    /\ rop.out = {}
    /\ cstate[rop.k] = "open"
    /\ StartsWithCamera(cid[rop.k])
    /\ last_offer[rop.k] = "sdp_b"
    /\ InClients(clients, cid[rop.k])
    /\ InClients(clients, <<"viewer", "u1">>)
    /\ ~alive[ConnOf(clients, <<"viewer", "u1">>)]
    /\ cstate[ConnOf(clients, <<"viewer", "u1">>)] = "open"

\* connection j holds the registry entry of its client id
HoldsEntry(reg, ids, j) ==
    InClients(reg, ids[j]) /\ ConnOf(reg, ids[j]) = j

\* C35: a connection that registers under an id holds the registry entry
\* of that id from then on, whatever older connection used the same id:
\* the ending of another connection neither removes nor replaces the entry
\* of a connection that holds one, nor changes its stored last_offer.
C35_NewestConnectionRegistered ==
    [][\A k \in ConnIds :
          /\ \A id \in ClientIds :
                Connect(k, id) => HoldsEntry(clients', cid', k)
          /\ (cstate[k] # "ended" /\ cstate'[k] = "ended") =>
                \A j \in ConnIds \ {k} :
                   (cstate[j] \in {"open", "bcast"}
                       /\ HoldsEntry(clients, cid, j)) =>
                      /\ HoldsEntry(clients', cid', j)
                      /\ last_offer'[j] = last_offer[j]]_vars

\* C36: while a publisher's offer is being delivered to the viewers one
\* after the other, no step of that delivery ends the publisher's handler,
\* removes the registry entry it holds or changes its stored last_offer,
\* whatever clients connected or disconnected between two sends.
C36_BroadcastSurvivesRegistryChange ==
    [][\A k \in ConnIds :
          BroadcastStepOf(k) =>
             /\ cstate'[k] # "ended"
             /\ HoldsEntry(clients, cid, k) => HoldsEntry(clients', cid', k)
             /\ last_offer'[k] = last_offer[k]]_vars

\* C40: a frame that is not a JSON object ends the handler that received
\* it and removes that connection's registry entry; nothing is sent to any
\* client, and every other connection keeps its handler state, its id, its
\* socket, its stored last_offer and the registry entry it holds.
C40_BadFrameEndsOnlySender ==
    [][\A k \in ConnIds :
          BadFrame(k) =>
             /\ cstate'[k] = "ended"
             /\ \A i \in 1..Len(clients') : clients'[i].conn # k
             /\ rop'.out = {}
             /\ \A j \in ConnIds \ {k} :
                   /\ cstate'[j] = cstate[j]
                   /\ cid'[j] = cid[j]
                   /\ alive'[j] = alive[j]
                   /\ last_offer'[j] = last_offer[j]
                   /\ HoldsEntry(clients, cid, j)
                         => HoldsEntry(clients', cid', j)]_vars

(***************************************************************************)
(* Further claims about the scheduler (checked under SpecSched)            *)
(***************************************************************************)
\* C37: terminated is absorbing for the sweep: a sweep, completed or not,
\* leaves the record of an agent whose stored status is terminated as it
\* is and issues no write for it, whatever now, start_at, end_at and
\* run_mode are; the status of such an agent changes only in a step that
\* is a registration (an upsert).
C37_TerminatedAbsorbing ==
    [][\A a \in DOMAIN agents :
          agents[a].status = "terminated" =>
             /\ a \in DOMAIN agents'
             /\ SweepStep =>
                   /\ agents'[a] = agents[a]
                   /\ \A w \in written' : w.agent_id # a
             /\ agents'[a].status # "terminated" => op' = "upsert"]_vars

\* a completed sweep has written the status of one agent and has left
\* another one terminated although the clock is inside its window
C37_Witness ==
    /\ op = "sweep_ok"
    /\ \E a, b \in DOMAIN agents :
          /\ a # b
          /\ agents[a].status = "terminated"
          /\ NewStatus(now, agents[a].start_at, agents[a].end_at) = "running"
          /\ \E w \in written : w.agent_id = b

(***************************************************************************)
(* Claims about the replayed offer (checked under SpecRelayOffers)         *)
(***************************************************************************)
\* the position of connection k in the order of acceptance
ConnIndex(k) == CHOOSE i \in 1..Len(ConnOrder) : ConnOrder[i] = k

\* the connection accepted last among those of the set P
Latest(P) == CHOOSE p \in P : \A q \in P : ConnIndex(q) <= ConnIndex(p)

\* C38: the last_offer of a publisher's connection is the sdp of the most
\* recent offer received on that connection, and it changes in no other
\* way while the connection lasts; what a connecting viewer is sent is
\* nothing, or one offer carrying the last_offer of its publisher's
\* current connection (the one accepted last of those that have not
\* ended); it is sent nothing when the publisher has no connection left
\* or has sent no offer with an sdp on its current connection.
C38_ReplayIsLatestOffer ==
    [][\A k \in ConnIds :
          /\ \A id \in ClientIds :
                (Connect(k, id) /\ ~StartsWithCamera(id) /\ HasColon(id)) =>
                   LET P == HandlersOf(CameraPeerId(id))
                   IN  /\ \A d \in rop'.out :
                             /\ P # {}
                             /\ Truthy(last_offer[Latest(P)])
                             /\ d = <<k, Msg("offer", CameraPeerId(id), id,
                                             last_offer[Latest(P)], None)>>
                       /\ Cardinality(rop'.out) <= 1
                       /\ (P = {} \/ ~Truthy(last_offer[Latest(P)]))
                             => rop'.out = {}
          /\ StepOf(k) =>
                \A t \in Targets, s \in Sdps :
                   LET offer == Msg("offer", cid[k], t, s, None)
                   IN  ReceiveMsg(k, offer) =>
                          last_offer'[k] = IF StartsWithCamera(cid[k])
                                           THEN s ELSE last_offer[k]
          /\ last_offer'[k] # last_offer[k]
                => StepOf(k) \/ cstate'[k] = "ended"]_vars

\* a publisher has two connections, the older one with the offer sdp_a and
\* the current one with the offer sdp_b, and the viewer that connected
\* after them has been sent sdp_b
C38_Witness ==
    /\ rop.name = "connect"
    /\ ~StartsWithCamera(cid[rop.k]) /\ HasColon(cid[rop.k])
    /\ LET P == HandlersOf(CameraPeerId(cid[rop.k]))
       IN  /\ Cardinality(P) = 2
           /\ last_offer[Latest(P)] = "sdp_b"
           /\ \E q \in P : last_offer[q] = "sdp_a"
           /\ rop.out = {<<rop.k, Msg("offer", CameraPeerId(cid[rop.k]),
                                      cid[rop.k], "sdp_b", None)>>}

(***************************************************************************)
(* Further claims about the hub (checked under SpecHub)                    *)
(***************************************************************************)
\* the step leaves channel d as it is: its latest frame, its subscriber
\* list and the contents of the queues created by a subscribe on it
ChannelUntouched(d) ==
    /\ last_frame'[d] = last_frame[d]
    /\ subscribers'[d] = subscribers[d]
    /\ \A q \in QueueIds : qchan[q] = d => queue'[q] = queue[q]

\* C39: a publish, subscribe, unsubscribe or get_latest on a channel leaves
\* the latest frame, the subscriber list and the queue contents of every
\* other channel unchanged; get_latest and unsubscribe change no channel's
\* latest frame and no queue's contents.
C39_ChannelsIsolated ==
    [][\A c \in ChannelIds :
          /\ (\/ publish(c)
              \/ get_latest(c)
              \/ \E q \in QueueIds : subscribe(c, q) \/ unsubscribe(c, q))
                => \A d \in ChannelIds \ {c} : ChannelUntouched(d)
          /\ (get_latest(c) \/ \E q \in QueueIds : unsubscribe(c, q))
                => last_frame' = last_frame /\ queue' = queue]_vars

\* a publish has put a frame on one channel while the other channel has a
\* latest frame and a subscriber of its own, and every queue holds frames
\* of its own channel only
C39_Witness ==
    /\ hop.name = "publish"
    /\ \A c \in ChannelIds :
          /\ last_frame[c] # NoFrame
          /\ \E i \in 1..Len(subscribers[c]) :
                LET q == subscribers[c][i]
                IN  /\ qchan[q] = c
                    /\ queue[q] # <<>>
                    /\ \A j \in 1..Len(queue[q]) : queue[q][j][1] = c

====
